---- MODULE Spec2Model ----
(***************************************************************************)
(* Waternity orchestrator core: the SessionManager (session registry and   *)
(* device liveness registry), the MirrorNodeClient (cursor based poller)   *)
(* and the MessageVerificationPipeline (device registry and per-session    *)
(* volume tracking).  Each component owns its own state; the three are     *)
(* modelled as three state machines over disjoint variables.               *)
(***************************************************************************)
EXTENDS Integers, Sequences, FiniteSets, Bags, TLC

(***************************************************************************)
(* Bounds of the model.                                                    *)
(***************************************************************************)
MaxTime == 3          \* the clock (Date.now) runs from 1 to MaxTime
MaxFlowEvents == 2    \* flow messages a session is sent in a run
MaxReadings == 3      \* flow messages the session of the metering scenario is sent

(***************************************************************************)
(* Configuration, in clock units.                                          *)
(***************************************************************************)
SessionTimeout == 1       \* SessionManagerConfig.sessionTimeout
MaxSessionDuration == 1   \* SessionManagerConfig.maxSessionDuration
RetentionWindow == 1      \* the 24 hours of cleanupOldSessions

SessionIds == {"S1", "S2"}
DeviceIds == {"D1", "D2"}
UserIds == {"U1", "U2"}
SessionUsers == {"U1"}
WellIds == {"W1"}
Volumes == {1, 2}
MaxVolumes == {2}
Prices == {3}
ValveStatuses == {"OPEN", "CLOSED"}
DeviceStates == {"ONLINE", "OFFLINE", "MAINTENANCE"}
CallerReasons == {"user request"}
TerminalStatuses == {"completed", "cancelled", "error"}

NoTime == -1              \* an optional timestamp that is undefined
Undefined == "undefined"  \* an optional string that is undefined

VARIABLES
  \* SessionManager
  activeSessions,   \* Map sessionId -> WaterSession
  deviceStatuses,   \* Map deviceId -> DeviceStatus
  cleanupInterval,  \* TRUE while the sweep timer is armed
  now,              \* Date.now()
  emitted,          \* the session and device events the last operation emitted
  returned,         \* what the last operation returned: "true", "false", "throw", "session", "void"
  sessionsToRemove, \* the ids the last operation deleted from the registry (a sweep's list)
  \* MirrorNodeClient
  lastSequenceNumber,  \* the cursor
  isPolling,
  retryCount,
  pollTimeout,      \* "pending" while the handle names a timeout that has not fired
  orphanTimeouts,   \* pending timeouts whose handle was overwritten
  scheduledDelay,   \* the delay of the timeout set last, 0 before any
  inflight,         \* the fetches awaited by poll(), a bag of [from, issued]
  topic,            \* the highest sequence number of the topic's log
  delivered,        \* the sequence numbers passed to the message callback since startPolling
  lastDelivered,    \* the sequence number passed to it last since startPolling, 0 if none
  errorRaised,      \* TRUE when the last step invoked the error callbacks
  log,              \* the topic's entries by sequence number, as the mirror node returns them
  messageCallbacks, \* the array of registered message callbacks
  received,         \* the calls of message callbacks made by the last step, in order
  exhausted,        \* TRUE from the step that used up the retries to the next fresh startPolling
  \* MessageVerificationPipeline
  deviceRegistry,   \* Map deviceId -> DeviceRegistry
  trackedSessions,  \* the pipeline's activeSessions: Map session key -> [startTime, totalVolume]
  verification,     \* the VerificationResult a verifyMessage answered in the last step
  acceptedVolume,   \* per (device, session), the highest volume of a flow event found valid
  verifying,        \* the verifyMessage calls suspended at their await (a bag)
  \* message formats: the last call of the module's functions
  codecCall,        \* "none", "validate", "serialize" or "deserialize"
  codecMessage,     \* the payload the call was made for
  codecData,        \* the JSON text serializeMessage returned
  codecResult,      \* what deserializeMessage returned: a message or null
  codecValid,       \* what validateHCSMessage returned: "true", "false" or "throws"
  \* the subscribers' callbacks besides the message callbacks
  errorCallbacks,   \* MirrorNodeClient: the array of registered error callbacks
  sessionCallbacks, \* SessionManager: Map event -> array of callbacks
  deviceCallbacks   \* SessionManager: the array of device status callbacks

smVars == <<activeSessions, deviceStatuses, cleanupInterval, emitted, returned,
            sessionsToRemove>>

mnVars == <<lastSequenceNumber, isPolling, retryCount, pollTimeout, orphanTimeouts,
            scheduledDelay, inflight, topic, delivered, lastDelivered, errorRaised,
            log, messageCallbacks, received, exhausted>>

vpVars == <<deviceRegistry, trackedSessions, verification, acceptedVolume, verifying>>

mfVars == <<codecCall, codecMessage, codecData, codecResult, codecValid>>

cbVars == <<errorCallbacks, sessionCallbacks, deviceCallbacks>>

vars == <<now, smVars, mnVars, vpVars, mfVars, cbVars>>

(***************************************************************************)
(* SessionManager                                                          *)
(***************************************************************************)

\* JavaScript truthiness of an optional number
Truthy(t) == t # NoTime /\ t # 0

\* getActiveSessionForDevice: the ids of the active sessions of a device
GetActiveSessionForDevice(sessions, deviceId) ==
  {sid \in DOMAIN sessions :
     sessions[sid].deviceId = deviceId /\ sessions[sid].status = "active"}

NewSession(userId, deviceId, wellId, maxVolume, pricePerLiter) ==
  [userId |-> userId, deviceId |-> deviceId, wellId |-> wellId,
   startTime |-> now, endTime |-> NoTime,
   maxVolume |-> maxVolume, pricePerLiter |-> pricePerLiter,
   totalVolume |-> 0, totalCost |-> 0, status |-> "active",
   lastActivity |-> now, flowEvents |-> <<>>, errorMessage |-> Undefined]

\* the guard of completeSession and cancelSession
CompleteGuard(sessions, sid) ==
  sid \in DOMAIN sessions /\ sessions[sid].status = "active"

\* the guard of errorSession
ErrorGuard(sessions, sid) == sid \in DOMAIN sessions

\* an error transition that forgets the end time
ErroredWithoutEnd(s, errorMessage) ==
  [s EXCEPT !.status = "error", !.errorMessage = errorMessage]

Completed(s) == [s EXCEPT !.status = "completed", !.endTime = now]

Cancelled(s, reason) ==
  [s EXCEPT !.status = "cancelled", !.endTime = now, !.errorMessage = reason]

Errored(s, errorMessage) ==
  [s EXCEPT !.status = "error", !.endTime = now, !.errorMessage = errorMessage]

\* the SessionManager touches no other component's state
smFrame == UNCHANGED <<mnVars, vpVars, mfVars, cbVars>>

\* the events a session callback subscribes to (onSessionEvent)
SessionEvents == {"created", "updated", "completed", "cancelled", "error"}

SMInit ==
  /\ activeSessions = <<>>
  /\ deviceStatuses = <<>>
  /\ cleanupInterval = TRUE
  /\ emitted = {}
  /\ returned = "void"
  /\ sessionsToRemove = {}

\* createSession asking only for a liveness record, whatever its status
CreateRejectedNoRecord(deviceId) ==
  \/ deviceId \notin DOMAIN deviceStatuses
  \/ GetActiveSessionForDevice(activeSessions, deviceId) # {}

\* createSession without the check for an active session of the device
CreateRejectedUnchecked(deviceId) ==
  \/ deviceId \notin DOMAIN deviceStatuses
  \/ deviceStatuses[deviceId].status # "ONLINE"

\* createSession refusing only a device that reported OFFLINE
CreateRejectedOfflineOnly(deviceId) ==
  \/ /\ deviceId \in DOMAIN deviceStatuses
     /\ deviceStatuses[deviceId].status = "OFFLINE"
  \/ GetActiveSessionForDevice(activeSessions, deviceId) # {}

\* the two checks of createSession that throw (lines 445-455)
CreateRejected(deviceId) ==
  \/ deviceId \notin DOMAIN deviceStatuses
  \/ deviceStatuses[deviceId].status # "ONLINE"
  \/ GetActiveSessionForDevice(activeSessions, deviceId) # {}

createSession(sid, userId, deviceId, wellId, maxVolume, pricePerLiter) ==
  /\ smFrame
  /\ sessionsToRemove' = {}
  /\ cleanupInterval' = cleanupInterval
  /\ now' = now
  /\ deviceStatuses' = deviceStatuses
  /\ IF CreateRejected(deviceId)
     THEN /\ returned' = "throw"
          /\ emitted' = {}
          /\ activeSessions' = activeSessions
     ELSE /\ returned' = "session"
          /\ emitted' = {<<"created", sid>>}
          /\ activeSessions' =
               [x \in DOMAIN activeSessions \cup {sid} |->
                  IF x = sid
                  THEN NewSession(userId, deviceId, wellId, maxVolume, pricePerLiter)
                  ELSE activeSessions[x]]

completeSession(sid) ==
  /\ smFrame
  /\ sessionsToRemove' = {}
  /\ UNCHANGED <<deviceStatuses, cleanupInterval, now>>
  /\ IF CompleteGuard(activeSessions, sid)
     THEN /\ activeSessions' =
               [activeSessions EXCEPT ![sid] = Completed(activeSessions[sid])]
          /\ emitted' = {<<"completed", sid>>}
          /\ returned' = "true"
     ELSE /\ activeSessions' = activeSessions
          /\ emitted' = {}
          /\ returned' = "false"

cancelSession(sid, reason) ==
  /\ smFrame
  /\ sessionsToRemove' = {}
  /\ UNCHANGED <<deviceStatuses, cleanupInterval, now>>
  /\ IF CompleteGuard(activeSessions, sid)
     THEN /\ activeSessions' =
               [activeSessions EXCEPT ![sid] = Cancelled(activeSessions[sid], reason)]
          /\ emitted' = {<<"cancelled", sid>>}
          /\ returned' = "true"
     ELSE /\ activeSessions' = activeSessions
          /\ emitted' = {}
          /\ returned' = "false"

errorSession(sid, errorMessage) ==
  /\ smFrame
  /\ sessionsToRemove' = {}
  /\ UNCHANGED <<deviceStatuses, cleanupInterval, now>>
  /\ IF ErrorGuard(activeSessions, sid)
     THEN /\ activeSessions' =
               [activeSessions EXCEPT ![sid] = Errored(activeSessions[sid], errorMessage)]
          /\ emitted' = {<<"error", sid>>}
          /\ returned' = "true"
     ELSE /\ activeSessions' = activeSessions
          /\ emitted' = {}
          /\ returned' = "false"

\* the flow and status messages a ProcessedMessage can carry, for the
\* sessions sids and the devices dids
FlowMessages(sids, dids, vols) ==
  [messageType : {"WATER_FLOW"}, deviceId : dids, wellId : WellIds,
   sessionId : sids, userId : UserIds, totalVolume : vols,
   valveStatus : ValveStatuses]

StatusMessages(dids) ==
  [messageType : {"DEVICE_STATUS"}, deviceId : dids, wellId : WellIds,
   status : DeviceStates]

UnknownMessages(dids) == [messageType : {"UNKNOWN"}, deviceId : dids]

\* the messages verification rejected: one of each kind
RejectedMessages(sids, dids) ==
  {m \in FlowMessages(sids, dids, {1}) : m.userId = "U1" /\ m.valveStatus = "CLOSED"}
  \cup {m \in StatusMessages(dids) : m.status = "OFFLINE"}

\* the WaterFlowEvent appended to a session
FlowEvent(m) == [totalVolume |-> m.totalVolume, valveStatus |-> m.valveStatus]

\* a flow message whose volume is added to the session's instead of replacing it
WithFlowAccumulated(s, m) ==
  [s EXCEPT !.flowEvents = Append(s.flowEvents, FlowEvent(m)),
            !.totalVolume = s.totalVolume + m.totalVolume,
            !.totalCost = (s.totalVolume + m.totalVolume) * s.pricePerLiter,
            !.lastActivity = now]

\* the session after a matching flow message was added to it (lines 536-540)
WithFlow(s, m) ==
  [s EXCEPT !.flowEvents = Append(s.flowEvents, FlowEvent(m)),
            !.totalVolume = m.totalVolume,
            !.totalCost = m.totalVolume * s.pricePerLiter,
            !.lastActivity = now]

\* a flow message matched on the session id alone
FlowMatchesById(sessions, m) == m.sessionId \in DOMAIN sessions

\* a flow message reaches the session it names when the ids agree
FlowMatches(sessions, m) ==
  /\ m.sessionId \in DOMAIN sessions
  /\ sessions[m.sessionId].deviceId = m.deviceId
  /\ sessions[m.sessionId].userId = m.userId

\* a completion test that looks at the valve only
ShouldCompleteOnValve(s, m) == m.valveStatus = "CLOSED"

\* the completion test of processWaterFlowMessage (lines 543-544)
ShouldComplete(s, m) ==
  m.valveStatus = "CLOSED" \/ s.totalVolume >= s.maxVolume

processWaterFlowMessage(m) ==
  /\ smFrame
  /\ sessionsToRemove' = {}
  /\ UNCHANGED <<deviceStatuses, cleanupInterval, now>>
  /\ returned' = "void"
  /\ IF FlowMatches(activeSessions, m)
     THEN LET sid == m.sessionId
              added == [activeSessions EXCEPT ![sid] = WithFlow(activeSessions[sid], m)]
              completes == ShouldComplete(added[sid], m) /\ CompleteGuard(added, sid)
          IN /\ activeSessions' =
                  IF completes
                  THEN [added EXCEPT ![sid] = Completed(added[sid])]
                  ELSE added
             /\ emitted' =
                  (IF completes THEN {<<"completed", sid>>} ELSE {})
                  \cup {<<"updated", sid>>}
     ELSE /\ activeSessions' = activeSessions
          /\ emitted' = {}

\* the DeviceStatus record built from a status message (lines 558-568)
DeviceStatusOf(m) ==
  [wellId |-> m.wellId, status |-> m.status]

\* a status message that only replaces the device record
processDeviceStatusMessageKeepsSessions(m) ==
  /\ smFrame
  /\ sessionsToRemove' = {}
  /\ UNCHANGED <<activeSessions, cleanupInterval, now>>
  /\ returned' = "void"
  /\ deviceStatuses' =
       [d \in DOMAIN deviceStatuses \cup {m.deviceId} |->
          IF d = m.deviceId THEN DeviceStatusOf(m) ELSE deviceStatuses[d]]
  /\ emitted' = {<<"deviceStatus", m.deviceId>>}

processDeviceStatusMessage(m) ==
  LET active == GetActiveSessionForDevice(activeSessions, m.deviceId)
      cancels == m.status = "OFFLINE" /\ active # {}
      sid == CHOOSE x \in active : TRUE
  IN /\ smFrame
     /\ sessionsToRemove' = {}
     /\ UNCHANGED <<cleanupInterval, now>>
     /\ returned' = "void"
     /\ deviceStatuses' =
          [d \in DOMAIN deviceStatuses \cup {m.deviceId} |->
             IF d = m.deviceId THEN DeviceStatusOf(m) ELSE deviceStatuses[d]]
     /\ activeSessions' =
          IF cancels
          THEN [activeSessions EXCEPT
                  ![sid] = Cancelled(activeSessions[sid], "Device went offline")]
          ELSE activeSessions
     /\ emitted' = (IF cancels THEN {<<"cancelled", sid>>} ELSE {})
                   \cup {<<"deviceStatus", m.deviceId>>}

\* processMessage without the isValid test
processMessageUnchecked(isValid, m) ==
  IF m.messageType = "WATER_FLOW" THEN processWaterFlowMessage(m)
  ELSE IF m.messageType = "DEVICE_STATUS" THEN processDeviceStatusMessage(m)
  ELSE /\ smFrame
       /\ sessionsToRemove' = {}
       /\ UNCHANGED <<activeSessions, deviceStatuses, cleanupInterval, now>>
       /\ emitted' = {}
       /\ returned' = "void"

\* processMessage: invalid messages and unknown message types are dropped
processMessage(isValid, m) ==
  IF isValid /\ m.messageType = "WATER_FLOW" THEN processWaterFlowMessage(m)
  ELSE IF isValid /\ m.messageType = "DEVICE_STATUS" THEN processDeviceStatusMessage(m)
  ELSE /\ smFrame
       /\ sessionsToRemove' = {}
       /\ UNCHANGED <<activeSessions, deviceStatuses, cleanupInterval, now>>
       /\ emitted' = {}
            /\ returned' = "void"

\* the timeout checks with the duration tested first
SweepSessionDurationFirst(s) ==
  IF s.status = "active"
  THEN IF now - s.startTime > MaxSessionDuration
       THEN Completed(s)
       ELSE IF now - s.lastActivity > SessionTimeout
            THEN Cancelled(s, "Session timeout due to inactivity")
            ELSE s
  ELSE s

\* one session of the sweep's loop: the timeout checks of lines 779-788
SweepSession(s) ==
  IF s.status = "active"
  THEN IF now - s.lastActivity > SessionTimeout
       THEN Cancelled(s, "Session timeout due to inactivity")
       ELSE IF now - s.startTime > MaxSessionDuration
            THEN Completed(s)
            ELSE s
  ELSE s

\* a removal test without the age of the session's end
SweepRemovesTerminal(s) == s.status # "active" /\ Truthy(s.endTime)

\* the removal test of lines 791-796, on the session as the loop left it
SweepRemoves(s) ==
  /\ s.status # "active"
  /\ Truthy(s.endTime)
  /\ now - s.endTime > RetentionWindow

cleanupOldSessions ==
  LET swept == [sid \in DOMAIN activeSessions |-> SweepSession(activeSessions[sid])]
      kept == {sid \in DOMAIN swept : ~SweepRemoves(swept[sid])}
  IN /\ cleanupInterval
     /\ smFrame
     /\ sessionsToRemove' = DOMAIN swept \ kept
     /\ UNCHANGED <<deviceStatuses, cleanupInterval, now>>
     /\ activeSessions' = [sid \in kept |-> swept[sid]]
     /\ emitted' =
          {<<swept[sid].status, sid>> :
             sid \in {x \in DOMAIN swept : swept[x].status # activeSessions[x].status}}
        /\ returned' = "void"

\* a destroy that clears the registries and leaves the sweep's timer running
destroyKeepsTimer ==
  /\ UNCHANGED <<mnVars, vpVars, mfVars, errorCallbacks>>
  /\ sessionCallbacks' = [event \in SessionEvents |-> << >>]
  /\ deviceCallbacks' = << >>
  /\ sessionsToRemove' = {}
  /\ cleanupInterval' = cleanupInterval
  /\ activeSessions' = <<>>
  /\ deviceStatuses' = <<>>
  /\ emitted' = {}
  /\ returned' = "void"
  /\ now' = now

\* destroy: the timer is cleared, both registries are emptied and the
\* callbacks are dropped
destroy ==
  /\ UNCHANGED <<mnVars, vpVars, mfVars, errorCallbacks>>
  /\ sessionCallbacks' = [event \in SessionEvents |-> << >>]
  /\ deviceCallbacks' = << >>
  /\ sessionsToRemove' = {}
  /\ cleanupInterval' = FALSE
  /\ activeSessions' = <<>>
  /\ deviceStatuses' = <<>>
  /\ emitted' = {}
  /\ returned' = "void"
  /\ now' = now

\* the runs explored send a session at most limit flow messages
HistoryRoom(m, limit) ==
  (m.messageType = "WATER_FLOW" /\ FlowMatches(activeSessions, m))
    => Len(activeSessions[m.sessionId].flowEvents) < limit

\* time passes
Tick ==
  /\ now < MaxTime
  /\ now' = now + 1
  /\ UNCHANGED <<smVars, mnVars, vpVars, mfVars, cbVars>>

\* the operations of a SessionManager used with the session ids sids and the
\* devices dids, whose verified flow messages are flows
SMNext(sids, dids, flows) ==
  \/ \E sid \in sids, u \in SessionUsers, d \in dids, w \in WellIds,
        mv \in MaxVolumes, p \in Prices : createSession(sid, u, d, w, mv, p)
  \/ \E m \in flows \cup StatusMessages(dids) \cup UnknownMessages(dids) :
        HistoryRoom(m, MaxFlowEvents) /\ processMessage(TRUE, m)
  \/ \E m \in RejectedMessages(sids, dids) : processMessage(FALSE, m)
  \/ \E sid \in sids : completeSession(sid)
  \/ \E sid \in sids, r \in CallerReasons : cancelSession(sid, r)
  \/ \E sid \in sids : errorSession(sid, "payment failed")
  \/ cleanupOldSessions
  \/ Tick


(***************************************************************************)
(* MirrorNodeClient                                                        *)
(***************************************************************************)
MaxTopic == 3      \* the topic's log grows to MaxTopic messages
MaxLoops == 3      \* poll loops (fetches awaited and timeouts pending) at a time
MaxOverlap == 2    \* poll loops at a time while the topic is read
PageLimit == 2     \* getMessages' limit, 100 in the code
MaxCallbacks == 2  \* registered message callbacks

PollInterval == 5000   \* defaultMirrorNodeConfig.pollInterval
MaxRetries == 5        \* defaultMirrorNodeConfig.maxRetries
MaxDelay == 60000      \* handlePollError's maxDelay

mnFrame == UNCHANGED <<now, smVars, vpVars, mfVars, cbVars>>

Max(a, b) == IF a >= b THEN a ELSE b
Min(a, b) == IF a <= b THEN a ELSE b

RECURSIVE Pow2(_)
Pow2(n) == IF n <= 0 THEN 1 ELSE 2 * Pow2(n - 1)

\* the poll loops alive: fetches awaited and timeouts pending
Loops ==
  BagCardinality(inflight) + orphanTimeouts + (IF pollTimeout = "pending" THEN 1 ELSE 0)

\* buildUrl and the mirror node's answer: the sequence numbers of the page a
\* fetch from fromSequenceNumber returns when the log ends at snapshot
\* (ascending, at most PageLimit of them, no filter when the number is falsy)
Page(fromSequenceNumber, snapshot) ==
  LET first == IF fromSequenceNumber # 0 THEN Max(fromSequenceNumber, 1) ELSE 1
      last == Min(snapshot, first + PageLimit - 1)
  IN [i \in 1..(last - first + 1) |-> first + i - 1]

\* Math.max(...messages.map(msg => msg.sequenceNumber))
MaxSequence(messages) ==
  CHOOSE n \in {messages[i] : i \in DOMAIN messages} :
    \A i \in DOMAIN messages : messages[i] <= n

\* setTimeout(...) assigned to this.pollTimeout: the timeout the handle named
\* before, if still pending, stays pending without a handle
SetTimeout(delay) ==
  /\ orphanTimeouts' = orphanTimeouts + (IF pollTimeout = "pending" THEN 1 ELSE 0)
  /\ pollTimeout' = "pending"
  /\ scheduledDelay' = delay

\* the fetch poll() awaits: getMessages(this.lastSequenceNumber + 1)
Fetch == [from |-> lastSequenceNumber + 1, issued |-> topic]

\* the backoff without its cap
BackoffDelayUncapped(count) == Pow2(count) * PollInterval

\* the exponential backoff of handlePollError (lines 222-225), for the retry
\* count after its increment
BackoffDelay(count) == Min(Pow2(count) * PollInterval, MaxDelay)

\* a signed or unsigned flow message of device D1, as a device publishes it
SampleFlow(signed) ==
  [messageType |-> "WATER_FLOW", deviceId |-> "D1", wellId |-> "W1", timestamp |-> 1,
   signatureValid |-> signed, sessionId |-> "S1", totalVolume |-> 1,
   readings |-> [flowRate |-> 1, pulseCount |-> 10, pressure |-> 50, temperature |-> 20]]

\* {} as HCSMessage
EmptyMessage == [messageType |-> "NONE"]

\* the entries of the topic: base64 of a message's JSON, or bytes that are not
\* JSON
Entry(m) == [json |-> TRUE, message |-> m]
Garbage == [json |-> FALSE, message |-> EmptyMessage]
Entries == {Entry(SampleFlow(TRUE)), Entry(SampleFlow(FALSE)), Garbage}

CallbackIds == {"a", "b"}

\* the ProcessedMessage processMessages makes of the entry raw with sequence
\* number n. JSON.parse throws on bytes that are not JSON; for a decoded
\* message the call verifyHCSMessage(hcsMessage) throws a TypeError, since
\* verificationPipeline.ts exports no verifyHCSMessage. Both land in the catch
\* block (lines 305-318).
ProcessMessage(n, raw) ==
  [sequenceNumber |-> n,
   message |-> EmptyMessage,
   isValid |-> FALSE,
   validationErrors |->
     IF raw.json
     THEN <<"Parse error: verifyHCSMessage is not a function">>
     ELSE <<"Parse error: Unexpected token">>]

\* processMessages without its try/catch: the entries mapped before the first
\* one that throws, and every entry throws
ProcessMessagesUncaught(sequenceNumbers) == << >>

\* processMessages(data.messages): one ProcessedMessage per entry
ProcessMessages(sequenceNumbers) ==
  [i \in DOMAIN sequenceNumbers |->
     ProcessMessage(sequenceNumbers[i], log[sequenceNumbers[i]])]

\* the callbacks whose body throws whenever it is called
ThrowingCallbacks == {"b"}

\* callbacks.forEach(callback => callback(...)): the callbacks called, in
\* order; a call that throws ends the loop unless it is made inside a try
\* block of its own
RECURSIVE ForEach(_, _)
ForEach(callbacks, caught) ==
  IF callbacks = << >> THEN << >>
  ELSE IF Head(callbacks) \in ThrowingCallbacks /\ ~caught
       THEN <<Head(callbacks)>>
       ELSE <<Head(callbacks)>> \o ForEach(Tail(callbacks), caught)

\* a loop over callbacks without the try block around the call
CalledUntilThrow(callbacks) == ForEach(callbacks, FALSE)

\* the loops of poll, handlePollError, emitSessionEvent and
\* processDeviceStatusMessage: each call sits in its own try/catch
Called(callbacks) == ForEach(callbacks, TRUE)

\* messages.forEach(message => this.messageCallbacks.forEach(callback => ...)):
\* the calls made, in order
Invocations(messages, callbacks) ==
  LET called == Called(callbacks)
  IN [k \in 1..(Len(messages) * Len(called)) |->
        [callback |-> called[((k - 1) % Len(called)) + 1],
         message |-> messages[((k - 1) \div Len(called)) + 1]]]

\* a step that calls no message callback and leaves the topic and the
\* registered callbacks alone
NothingDelivered ==
  /\ received' = << >>
  /\ UNCHANGED <<log, messageCallbacks>>

MNInit ==
  /\ exhausted = FALSE
  /\ log = << >>
  /\ messageCallbacks = << >>
  /\ received = << >>
  /\ lastSequenceNumber = 0
  /\ isPolling = FALSE
  /\ retryCount = 0
  /\ pollTimeout = "null"
  /\ orphanTimeouts = 0
  /\ scheduledDelay = 0
  /\ inflight = EmptyBag
  /\ topic = 0
  /\ delivered = {}
  /\ lastDelivered = 0
  /\ errorRaised = FALSE

\* a startPolling that keeps the retry count of the lifetime before
startPollingKeepsRetries(fromSequenceNumber) ==
  /\ mnFrame
  /\ NothingDelivered
  /\ isPolling \/ Loops < MaxLoops
  /\ errorRaised' = FALSE
  /\ UNCHANGED <<pollTimeout, orphanTimeouts, scheduledDelay, topic>>
  /\ IF isPolling
     THEN UNCHANGED <<lastSequenceNumber, isPolling, retryCount, inflight,
                      delivered, lastDelivered, exhausted>>
     ELSE /\ isPolling' = TRUE
          /\ exhausted' = FALSE
          /\ lastSequenceNumber' = fromSequenceNumber
          /\ retryCount' = retryCount
          /\ delivered' = {}
          /\ lastDelivered' = 0
          /\ inflight' = inflight (+) SetToBag({[from |-> fromSequenceNumber + 1,
                                                 issued |-> topic]})

\* startPolling(fromSequenceNumber): a no-op while polling, else it resets the
\* cursor and the retry count and calls poll(), which starts a fetch
startPolling(fromSequenceNumber) ==
  /\ mnFrame
  /\ NothingDelivered
  /\ isPolling \/ Loops < MaxLoops
  /\ errorRaised' = FALSE
  /\ UNCHANGED <<pollTimeout, orphanTimeouts, scheduledDelay, topic>>
  /\ IF isPolling
     THEN UNCHANGED <<lastSequenceNumber, isPolling, retryCount, inflight,
                      delivered, lastDelivered, exhausted>>
     ELSE /\ isPolling' = TRUE
          /\ exhausted' = FALSE
          /\ lastSequenceNumber' = fromSequenceNumber
          /\ retryCount' = 0
          /\ delivered' = {}
          /\ lastDelivered' = 0
          /\ inflight' = inflight (+) SetToBag({[from |-> fromSequenceNumber + 1,
                                                 issued |-> topic]})

\* stopPolling(): clears the flag and the timeout the handle names
stopPolling ==
  /\ mnFrame
  /\ NothingDelivered
  /\ isPolling' = FALSE
  /\ pollTimeout' = "null"
  /\ errorRaised' = FALSE
  /\ UNCHANGED <<lastSequenceNumber, retryCount, orphanTimeouts, scheduledDelay,
                 inflight, topic, delivered, lastDelivered, exhausted>>

\* poll() up to its await, called by a timeout that fired
pollStart ==
  /\ NothingDelivered
  /\ errorRaised' = FALSE
  /\ UNCHANGED <<lastSequenceNumber, isPolling, retryCount, scheduledDelay, topic,
                 delivered, lastDelivered, exhausted>>
  /\ inflight' = IF isPolling THEN inflight (+) SetToBag({Fetch}) ELSE inflight

\* the timeout the handle names fires
timeoutFires ==
  /\ mnFrame
  /\ pollTimeout = "pending"
  /\ pollTimeout' = "fired"
  /\ orphanTimeouts' = orphanTimeouts
  /\ pollStart

\* a timeout whose handle was overwritten fires
orphanTimeoutFires ==
  /\ mnFrame
  /\ orphanTimeouts > 0
  /\ orphanTimeouts' = orphanTimeouts - 1
  /\ pollTimeout' = pollTimeout
  /\ pollStart

\* a successful poll cycle that keeps the retry count
pollResolvedKeepsRetries(fetch, snapshot) ==
  LET messages == Page(fetch.from, snapshot)
  IN /\ mnFrame
     /\ BagIn(fetch, inflight)
     /\ snapshot \in fetch.issued..topic
     /\ received' = Invocations(ProcessMessages(messages), messageCallbacks)
     /\ UNCHANGED <<log, messageCallbacks, exhausted>>
     /\ inflight' = inflight (-) SetToBag({fetch})
     /\ lastSequenceNumber' =
          IF Len(messages) > 0 THEN MaxSequence(messages) ELSE lastSequenceNumber
     /\ delivered' = delivered \cup {messages[i] : i \in DOMAIN messages}
     /\ lastDelivered' =
          IF Len(messages) > 0 THEN messages[Len(messages)] ELSE lastDelivered
     /\ retryCount' = retryCount
     /\ errorRaised' = FALSE
     /\ topic' = topic
     /\ isPolling' = isPolling
     /\ IF isPolling
        THEN SetTimeout(PollInterval)
        ELSE UNCHANGED <<pollTimeout, orphanTimeouts, scheduledDelay>>

\* poll() after its await, the fetch fulfilled with the page read when the log
\* ended at snapshot (lines 172-194)
pollResolved(fetch, snapshot) ==
  LET messages == Page(fetch.from, snapshot)
  IN /\ mnFrame
     /\ BagIn(fetch, inflight)
     /\ snapshot \in fetch.issued..topic
     /\ received' = Invocations(ProcessMessages(messages), messageCallbacks)
     /\ UNCHANGED <<log, messageCallbacks, exhausted>>
     /\ inflight' = inflight (-) SetToBag({fetch})
     /\ lastSequenceNumber' =
          IF Len(messages) > 0 THEN MaxSequence(messages) ELSE lastSequenceNumber
     /\ delivered' = delivered \cup {messages[i] : i \in DOMAIN messages}
     /\ lastDelivered' =
          IF Len(messages) > 0 THEN messages[Len(messages)] ELSE lastDelivered
     /\ retryCount' = 0
     /\ errorRaised' = FALSE
     /\ topic' = topic
     /\ isPolling' = isPolling
     /\ IF isPolling
        THEN SetTimeout(PollInterval)
        ELSE UNCHANGED <<pollTimeout, orphanTimeouts, scheduledDelay>>

\* a failed fetch that moves the cursor past the page it asked for
pollRejectedSkips(fetch) ==
  /\ mnFrame
  /\ NothingDelivered
  /\ BagIn(fetch, inflight)
  /\ inflight' = inflight (-) SetToBag({fetch})
  /\ errorRaised' = TRUE
  /\ retryCount' = retryCount + 1
  /\ lastSequenceNumber' = fetch.from
  /\ UNCHANGED <<topic, delivered, lastDelivered, exhausted>>
  /\ IF retryCount + 1 >= MaxRetries
     THEN /\ isPolling' = FALSE
          /\ pollTimeout' = "null"
          /\ UNCHANGED <<orphanTimeouts, scheduledDelay>>
     ELSE /\ isPolling' = isPolling
          /\ SetTimeout(BackoffDelay(retryCount + 1))

\* poll() after its await, the fetch rejected: handlePollError (lines 203-232)
pollRejected(fetch) ==
  /\ mnFrame
  /\ NothingDelivered
  /\ BagIn(fetch, inflight)
  /\ inflight' = inflight (-) SetToBag({fetch})
  /\ errorRaised' = TRUE
  /\ retryCount' = retryCount + 1
  /\ UNCHANGED <<lastSequenceNumber, topic, delivered, lastDelivered>>
  /\ IF retryCount + 1 >= MaxRetries
     THEN /\ isPolling' = FALSE
          /\ pollTimeout' = "null"
          /\ exhausted' = TRUE
          /\ UNCHANGED <<orphanTimeouts, scheduledDelay>>
     ELSE /\ isPolling' = isPolling
          /\ exhausted' = exhausted
          /\ SetTimeout(BackoffDelay(retryCount + 1))

\* onMessage(callback)
onMessage(callback) ==
  /\ mnFrame
  /\ Len(messageCallbacks) < MaxCallbacks
  /\ messageCallbacks' = Append(messageCallbacks, callback)
  /\ received' = << >>
  /\ errorRaised' = FALSE
  /\ UNCHANGED <<lastSequenceNumber, isPolling, retryCount, pollTimeout, orphanTimeouts,
                 scheduledDelay, inflight, topic, delivered, lastDelivered, log, exhausted>>

\* offMessage(callback): indexOf and splice remove its first registration
offMessage(callback) ==
  /\ mnFrame
  /\ messageCallbacks' =
       IF \E i \in DOMAIN messageCallbacks : messageCallbacks[i] = callback
       THEN LET index == CHOOSE i \in DOMAIN messageCallbacks :
                           /\ messageCallbacks[i] = callback
                           /\ \A j \in 1..(i - 1) : messageCallbacks[j] # callback
            IN SubSeq(messageCallbacks, 1, index - 1)
               \o SubSeq(messageCallbacks, index + 1, Len(messageCallbacks))
       ELSE messageCallbacks
  /\ received' = << >>
  /\ errorRaised' = FALSE
  /\ UNCHANGED <<lastSequenceNumber, isPolling, retryCount, pollTimeout, orphanTimeouts,
                 scheduledDelay, inflight, topic, delivered, lastDelivered, log, exhausted>>

\* an entry is appended to the topic
topicGrows(entry) ==
  /\ mnFrame
  /\ topic < MaxTopic
  /\ topic' = topic + 1
  /\ log' = Append(log, entry)
  /\ received' = << >>
  /\ UNCHANGED <<messageCallbacks, exhausted>>
  /\ errorRaised' = FALSE
  /\ UNCHANGED <<lastSequenceNumber, isPolling, retryCount, pollTimeout,
                 orphanTimeouts, scheduledDelay, inflight, delivered, lastDelivered>>

Fetches == [from : 1..(MaxTopic + 1), issued : 0..MaxTopic]

ClientNext ==
  \/ \E n \in 0..MaxTopic : (isPolling \/ Loops < MaxOverlap) /\ startPolling(n)
  \/ stopPolling
  \/ timeoutFires
  \/ orphanTimeoutFires
  \/ \E f \in Fetches, snapshot \in 0..MaxTopic : pollResolved(f, snapshot)
  \/ \E f \in Fetches : pollRejected(f)
  \/ topicGrows(Entry(SampleFlow(TRUE)))


(***************************************************************************)
(* MessageVerificationPipeline                                             *)
(***************************************************************************)
\* the pipeline reads the clock in units of five minutes
MaxTimestampDrift == 1      \* maxTimestampDrift: 5 minutes, one unit
VPMaxSessionDuration == 12  \* the pipeline's maxSessionDuration: 1 hour, 12 units

RegistryWells == {"W1", "W2"}
Timestamps == 1..MaxTime

\* the stamps of the messages given to the pipeline: the times of the clock and
\* the times more than maxSessionDuration after them
VPTimestamps == Timestamps \cup {t + VPMaxSessionDuration + 1 : t \in Timestamps}

\* the DeviceInfo objects a caller holds and passes to registerDevice
DeviceObjects == {"o1", "o2"}
VolumeReadings == {-1, 1, 2}

\* the sensor readings of a flow message: all in range, or one out of range
GoodReadings == [flowRate |-> 1, pulseCount |-> 10, pressure |-> 50, temperature |-> 20]
SensorReadings ==
  {GoodReadings,
   [GoodReadings EXCEPT !.flowRate = -1],
   [GoodReadings EXCEPT !.pulseCount = -1],
   [GoodReadings EXCEPT !.pressure = 201],
   [GoodReadings EXCEPT !.temperature = -11]}

\* the health readings of a status message
GoodHealth == [batteryLevel |-> 80, signalStrength |-> -60, memoryUsage |-> 40, uptime |-> 5]
HealthReadings ==
  {GoodHealth,
   [GoodHealth EXCEPT !.batteryLevel = 10],
   [GoodHealth EXCEPT !.batteryLevel = 101],
   [GoodHealth EXCEPT !.signalStrength = -100],
   [GoodHealth EXCEPT !.signalStrength = -121],
   [GoodHealth EXCEPT !.memoryUsage = 101],
   [GoodHealth EXCEPT !.uptime = -1]}

\* the messages given to verifyMessage; signatureValid is what ed25519.verify
\* answers for the message's signature and the device's public key
VPFlowMessages(dids, sids, stamps) ==
  [messageType : {"WATER_FLOW"}, deviceId : dids, wellId : RegistryWells,
   timestamp : stamps, signatureValid : BOOLEAN, sessionId : sids,
   totalVolume : VolumeReadings, readings : SensorReadings]

VPStatusMessages(dids, stamps) ==
  [messageType : {"DEVICE_STATUS"}, deviceId : dids, wellId : RegistryWells,
   timestamp : stamps, signatureValid : BOOLEAN, readings : HealthReadings]

\* a message with readings out of range is otherwise well formed: signed, for
\* well W1 and stamped with the current time
WellFormed(m) ==
  m.readings \in {GoodReadings, GoodHealth}
  \/ (m.wellId = "W1" /\ m.signatureValid /\ m.timestamp = now)

\* the messages stamped in stamps of the registered device D1 and one message
\* of each kind, stamped with the current time, of the device D2, which is
\* never registered
VerifyInputs(stamps) ==
  {m \in VPFlowMessages({"D1"}, {"S1"}, stamps) \cup VPStatusMessages({"D1"}, stamps) :
     /\ WellFormed(m)
     /\ (m.messageType = "WATER_FLOW" /\ m.totalVolume < 0) => m.readings = GoodReadings}
  \cup [messageType : {"WATER_FLOW"}, deviceId : {"D2"}, wellId : {"W1"},
        timestamp : {now} \cap stamps, signatureValid : {TRUE}, sessionId : {"S1"},
        totalVolume : {1}, readings : {GoodReadings}]
  \cup [messageType : {"DEVICE_STATUS"}, deviceId : {"D2"}, wellId : {"W1"},
        timestamp : {now} \cap stamps, signatureValid : {TRUE}, readings : {GoodHealth}]

vpFrame == UNCHANGED <<now, smVars, mnVars, mfVars, cbVars>>

MaxVerifying == 2  \* verifyMessage calls suspended at their await at one time

\* no verifyMessage answered in the step (no result is invalid without an error)
NoResult == [isValid |-> FALSE, errors |-> <<>>, warnings |-> <<>>]

VPInit ==
  /\ deviceRegistry = <<>>
  /\ trackedSessions = <<>>
  /\ verification = NoResult
  /\ acceptedVolume = <<>>
  /\ verifying = EmptyBag

\* registerDevice(device): Map.set(device.deviceId, device).  The registry
\* holds the caller's DeviceInfo object itself, here the object's identity and
\* its fields as the caller left them; an object that is registered, under this
\* or another id, shows the same fields wherever it is registered.  The calls
\* of verifyMessage suspended at their await keep the object they read
registerDevice(object, deviceId, wellId, isActive, lastSeen) ==
  /\ vpFrame
  /\ deviceRegistry' =
       [d \in DOMAIN deviceRegistry \cup {deviceId} |->
          IF d = deviceId \/ deviceRegistry[d].object = object
          THEN [object |-> object, wellId |-> wellId, isActive |-> isActive,
                lastSeen |-> lastSeen]
          ELSE deviceRegistry[d]]
  /\ verification' = NoResult
  /\ UNCHANGED <<trackedSessions, acceptedVolume, verifying>>

\* validateTimestamp
ValidateTimestamp(timestamp) ==
  (IF now >= timestamp THEN now - timestamp ELSE timestamp - now) <= MaxTimestampDrift

\* `${message.deviceId}-${message.sessionId}`: the two ids joined by a hyphen
SessionKey(m) == m.deviceId \o "-" \o m.sessionId

\* the (device, session) a flow message is of
SessionOf(m) == <<m.deviceId, m.sessionId>>

If(cond, error) == IF cond THEN <<error>> ELSE <<>>

\* the tracking map after validateWaterFlowMessage: a first event opens the
\* entry (lines 100-106), a later one overwrites its volume (lines 130-133)
TrackedAfter(m) ==
  LET key == SessionKey(m)
  IN IF key \in DOMAIN trackedSessions
     THEN [trackedSessions EXCEPT ![key].totalVolume = m.totalVolume]
     ELSE [k \in DOMAIN trackedSessions \cup {key} |->
             IF k = key
             THEN [startTime |-> m.timestamp, totalVolume |-> m.totalVolume]
             ELSE trackedSessions[k]]

\* the errors of validateWaterFlowMessage, in the order it pushes them
FlowErrors(m) ==
  LET key == SessionKey(m)
      existing == key \in DOMAIN trackedSessions
  IN If(existing /\ m.timestamp - trackedSessions[key].startTime > VPMaxSessionDuration,
        "Session duration exceeds maximum allowed time")
     \o If(existing /\ m.totalVolume < trackedSessions[key].totalVolume,
           "Total volume cannot decrease during session")
     \o If(m.readings.flowRate < 0, "Flow rate cannot be negative")
     \o If(m.totalVolume < 0, "Total volume cannot be negative")
     \o If(m.readings.pulseCount < 0, "Pulse count cannot be negative")
     \o If(m.readings.pressure < 0 \/ m.readings.pressure > 200,
           "Pressure reading out of valid range (0-200 PSI)")
     \o If(m.readings.temperature < -10 \/ m.readings.temperature > 60,
           "Temperature reading out of valid range (-10 to 60 C)")

\* the errors of validateDeviceStatusMessage
StatusErrors(m) ==
  If(m.readings.batteryLevel < 0 \/ m.readings.batteryLevel > 100,
     "Battery level must be between 0 and 100")
  \o If(m.readings.signalStrength < -120 \/ m.readings.signalStrength > 0,
        "Signal strength out of valid range (-120 to 0 dBm)")
  \o If(m.readings.memoryUsage < 0 \/ m.readings.memoryUsage > 100,
        "Memory usage must be between 0 and 100")
  \o If(m.readings.uptime < 0, "Uptime cannot be negative")

\* the warnings of verifyMessage (lines 224-232)
Warnings(m) ==
  IF m.messageType = "DEVICE_STATUS"
  THEN If(m.readings.batteryLevel < 20, "Device battery level is low")
       \o If(m.readings.signalStrength < -90, "Device signal strength is weak")
  ELSE <<>>

\* the checks of verifyMessage before its await stopping at the first one
\* that fails
EarlyErrorsShortCircuit(m) ==
  LET device == deviceRegistry[m.deviceId]
  IN IF ~device.isActive THEN <<"Device is not active">>
     ELSE IF device.wellId # m.wellId
          THEN <<"Device is not associated with the specified well">>
     ELSE If(~ValidateTimestamp(m.timestamp),
             "Message timestamp is outside acceptable range")

\* the errors verifyMessage pushes for a registered device before it awaits
\* the signature check (lines 186-202): they are decided by the registry record
\* and the clock at the time of the call
EarlyErrors(m) ==
  LET device == deviceRegistry[m.deviceId]
  IN If(~device.isActive, "Device is not active")
     \o If(device.wellId # m.wellId, "Device is not associated with the specified well")
     \o If(~ValidateTimestamp(m.timestamp), "Message timestamp is outside acceptable range")

\* the errors verifyMessage pushes once the signature check has answered
\* (lines 205-218): they are decided by the tracking map at that time
LateErrors(m) ==
  If(~m.signatureValid, "Message signature verification failed")
  \o (IF m.messageType = "WATER_FLOW" THEN FlowErrors(m) ELSE StatusErrors(m))

\* the errors of a verifyMessage that nothing interleaves with (lines 186-218)
VerifyErrors(m) == EarlyErrors(m) \o LateErrors(m)

\* the highest accepted volume of a (device, session) after a flow event of it
\* was found valid
Accepted(m) ==
  LET key == SessionOf(m)
  IN [k \in DOMAIN acceptedVolume \cup {key} |->
        IF k = key
        THEN IF key \in DOMAIN acceptedVolume
             THEN Max(acceptedVolume[key], m.totalVolume) ELSE m.totalVolume
        ELSE acceptedVolume[k]]

\* a call of verifyMessage suspended at `await this.verifySignature(...)`
\* (line 205): its message, the errors pushed so far, and the DeviceInfo
\* object it read from the registry (line 174)
Suspended(m, errors) ==
  [message |-> m, errors |-> errors, object |-> deviceRegistry[m.deviceId].object]

\* verifyMessage going on to the signature and the tracking of a flow message
\* after it found the device unregistered
verifyMessageUnregisteredContinues(m) ==
  /\ vpFrame
  /\ IF m.deviceId \notin DOMAIN deviceRegistry
     THEN /\ verification' =
               [isValid |-> FALSE,
                errors |-> <<"Device not registered in the system">>
                           \o If(~m.signatureValid, "Message signature verification failed"),
                warnings |-> <<>>]
          /\ trackedSessions' =
               IF m.messageType = "WATER_FLOW" THEN TrackedAfter(m) ELSE trackedSessions
          /\ UNCHANGED <<deviceRegistry, acceptedVolume, verifying>>
     ELSE /\ BagCardinality(verifying) < MaxVerifying
          /\ verifying' = verifying (+) SetToBag({Suspended(m, EarlyErrors(m))})
          /\ verification' = NoResult
          /\ UNCHANGED <<deviceRegistry, trackedSessions, acceptedVolume>>

\* verifyMessage(message) up to its first await: an unregistered device is
\* answered at once (lines 177-182); for a registered one the device, well and
\* timestamp checks are made (lines 184-202) and the call is suspended at the
\* signature check (line 205)
verifyMessage(m) ==
  /\ vpFrame
  /\ IF m.deviceId \notin DOMAIN deviceRegistry
     THEN /\ verification' = [isValid |-> FALSE,
                              errors |-> <<"Device not registered in the system">>,
                              warnings |-> <<>>]
          /\ UNCHANGED <<deviceRegistry, trackedSessions, acceptedVolume, verifying>>
     ELSE /\ BagCardinality(verifying) < MaxVerifying
          /\ verifying' = verifying (+) SetToBag({Suspended(m, EarlyErrors(m))})
          /\ verification' = NoResult
          /\ UNCHANGED <<deviceRegistry, trackedSessions, acceptedVolume>>

\* verifyMessage from its await on (lines 205-237): the signature's answer, the
\* checks of the message's kind against the tracking map as it is now, the
\* lastSeen written to the DeviceInfo object the call holds, the warnings and
\* the result
verifyMessageResumes(call) ==
  /\ vpFrame
  /\ BagIn(call, verifying)
  /\ LET m == call.message
         errors == call.errors \o LateErrors(m)
     IN /\ verifying' = verifying (-) SetToBag({call})
        /\ deviceRegistry' =
             [d \in DOMAIN deviceRegistry |->
                IF deviceRegistry[d].object = call.object
                THEN [deviceRegistry[d] EXCEPT !.lastSeen = m.timestamp]
                ELSE deviceRegistry[d]]
        /\ trackedSessions' =
             IF m.messageType = "WATER_FLOW" THEN TrackedAfter(m) ELSE trackedSessions
        /\ verification' = [isValid |-> errors = <<>>, errors |-> errors,
                            warnings |-> Warnings(m)]
        /\ acceptedVolume' =
             IF m.messageType = "WATER_FLOW" /\ errors = <<>>
             THEN Accepted(m) ELSE acceptedVolume

\* cleanupExpiredSessions
cleanupExpiredSessions ==
  /\ vpFrame
  /\ trackedSessions' =
       [k \in {x \in DOMAIN trackedSessions :
                 ~(now - trackedSessions[x].startTime > VPMaxSessionDuration)} |->
          trackedSessions[k]]
  /\ verification' = NoResult
  /\ UNCHANGED <<deviceRegistry, acceptedVolume, verifying>>

\* the flow messages of one session of the device D1, signed, for its well and
\* with readings in range: their volumes vary, and their stamps within ten
\* minutes of the current time
FlowInputs ==
  [messageType : {"WATER_FLOW"}, deviceId : {"D1"}, wellId : {"W1"},
   timestamp : VPTimestamps \cap ((now - 2)..(now + 2)), signatureValid : {TRUE},
   sessionId : {"S1"}, totalVolume : {v \in VolumeReadings : v > 0},
   readings : {GoodReadings}]

\* more than maxSessionDuration passes: an hour and five minutes
HourPasses ==
  /\ now <= MaxTime
  /\ now' = now + VPMaxSessionDuration + 1
  /\ UNCHANGED <<smVars, mnVars, vpVars, mfVars, cbVars>>

\* the pipeline over time: the device D1 is registered and registered again,
\* with the object already registered or with another one, flow messages are
\* verified, their calls overlapping, the clock advances by five minutes or by
\* more than an hour and expired tracking entries are removed
VerifyNext ==
  \/ \E object \in DeviceObjects : registerDevice(object, "D1", "W1", TRUE, now)
  \/ \E m \in FlowInputs : verifyMessage(m)
  \/ \E call \in BagToSet(verifying) : verifyMessageResumes(call)
  \/ cleanupExpiredSessions
  \/ Tick
  \/ HourPasses

\* the messages stamped with the current time or with a time more than
\* maxSessionDuration after it
CheckInputs == VerifyInputs({now, now + VPMaxSessionDuration + 1})

\* the pipeline at one instant: devices are registered and messages verified,
\* one call of verifyMessage at a time
CheckNext ==
  \/ \E object \in DeviceObjects, w \in RegistryWells, a \in BOOLEAN :
       registerDevice(object, "D1", w, a, now)
  \/ \E m \in CheckInputs : verifying = EmptyBag /\ verifyMessage(m)
  \/ \E call \in BagToSet(verifying) : verifyMessageResumes(call)

(***************************************************************************)
(* Message formats (src/lib/hcs/messageFormats.ts)                         *)
(*                                                                         *)
(* A payload is what a caller can pass as `message: any`: null, or an     *)
(* object whose properties are JavaScript values.  A value is kept as its  *)
(* typeof and a token; a property that is missing or undefined is absent   *)
(* from the object.  The properties of the nested diagnostics record are   *)
(* kept beside the others under dotted names.                              *)
(***************************************************************************)

JSNumber(n) == [type |-> "number", val |-> n]
JSString(x) == [type |-> "string", val |-> x]
JSNull == [type |-> "object", val |-> "null"]
JSObject == [type |-> "object", val |-> "{}"]

\* the values a property is given: a finite number, the numbers JSON has no
\* text for, strings in and out of the enumerations, null and an object
JSValues ==
  {JSNumber("7"), JSNumber("NaN"), JSNumber("Infinity"),
   JSString("x"), JSString("CLOSED"), JSString("MAINTENANCE"), JSString("WARNING"),
   JSString("DEVICE_STATUS"), JSString("WATER_FLOW"),
   JSNull, JSObject}

BaseFields == {"timestamp", "deviceId", "wellId", "signature", "messageType"}

FlowFields ==
  BaseFields \cup {"sessionId", "userId", "pulseCount", "flowRate", "totalVolume",
                   "valveStatus", "pressure", "temperature"}

DiagnosticsFields ==
  {"diagnostics.pumpStatus", "diagnostics.sensorStatus", "diagnostics.networkStatus",
   "diagnostics.memoryUsage", "diagnostics.uptime"}

StatusFields ==
  BaseFields \cup {"status", "batteryLevel", "signalStrength", "lastMaintenance",
                   "diagnostics"} \cup DiagnosticsFields

NumberFields ==
  {"timestamp", "pulseCount", "flowRate", "totalVolume", "pressure", "temperature",
   "batteryLevel", "signalStrength", "lastMaintenance",
   "diagnostics.memoryUsage", "diagnostics.uptime"}

HealthFields ==
  {"diagnostics.pumpStatus", "diagnostics.sensorStatus", "diagnostics.networkStatus"}

\* the payload null and the object with the properties fields
NullPayload == [kind |-> "null", fields |-> <<>>]
ObjectPayload(fields) == [kind |-> "object", fields |-> fields]

\* a flow message and a status message as a device sends them
SampleFlowEvent ==
  [f \in FlowFields |->
     IF f \in NumberFields THEN JSNumber("7")
     ELSE IF f = "messageType" THEN JSString("WATER_FLOW")
     ELSE IF f = "valveStatus" THEN JSString("OPEN")
     ELSE JSString("x")]

SampleStatusEvent ==
  [f \in StatusFields |->
     IF f \in NumberFields THEN JSNumber("7")
     ELSE IF f = "messageType" THEN JSString("DEVICE_STATUS")
     ELSE IF f = "status" THEN JSString("ONLINE")
     ELSE IF f = "diagnostics" THEN JSObject
     ELSE IF f \in HealthFields THEN JSString("OK")
     ELSE JSString("x")]

\* an object has the properties of its diagnostics only when diagnostics is
\* an object
Consistent(fields) ==
  IF "diagnostics" \in DOMAIN fields /\ fields["diagnostics"] = JSObject
  THEN fields
  ELSE [f \in DOMAIN fields \ DiagnosticsFields |-> fields[f]]

\* the object fields with property g deleted
Without(fields, g) ==
  Consistent([f \in DOMAIN fields \ {g} |-> fields[f]])

\* the object fields with property g set to v
With(fields, g, v) ==
  Consistent([f \in DOMAIN fields \cup {g} |-> IF f = g THEN v ELSE fields[f]])

\* the payloads the functions are called with: null, the two sample messages
\* and each of them with one property deleted or given any value
Payloads ==
  {NullPayload}
  \cup {ObjectPayload(Without(b, g)) :
          b \in {SampleFlowEvent, SampleStatusEvent}, g \in FlowFields \cup StatusFields}
  \cup {ObjectPayload(With(b, g, v)) :
          b \in {SampleFlowEvent, SampleStatusEvent},
          g \in FlowFields \cup StatusFields \cup {"errorCode"}, v \in JSValues}

\* typeof message[f]
TypeOf(fields, f) == IF f \in DOMAIN fields THEN fields[f].type ELSE "undefined"

\* ['A', 'B'].includes(message[f])
Includes(literals, fields, f) ==
  /\ f \in DOMAIN fields
  /\ fields[f].type = "string"
  /\ fields[f].val \in literals

\* the truthiness of message[f] in `message.diagnostics && ...`
JSTruthy(fields, f) ==
  /\ f \in DOMAIN fields
  /\ fields[f] # JSNull
  /\ fields[f] \notin {JSNumber("NaN"), JSNumber("0"), JSString("")}

validateWaterFlowMessage(fields) ==
  /\ Includes({"WATER_FLOW"}, fields, "messageType")
  /\ TypeOf(fields, "timestamp") = "number"
  /\ TypeOf(fields, "deviceId") = "string"
  /\ TypeOf(fields, "wellId") = "string"
  /\ TypeOf(fields, "signature") = "string"
  /\ TypeOf(fields, "sessionId") = "string"
  /\ TypeOf(fields, "userId") = "string"
  /\ TypeOf(fields, "pulseCount") = "number"
  /\ TypeOf(fields, "flowRate") = "number"
  /\ TypeOf(fields, "totalVolume") = "number"
  /\ Includes({"OPEN", "CLOSED"}, fields, "valveStatus")
  /\ TypeOf(fields, "pressure") = "number"
  /\ TypeOf(fields, "temperature") = "number"

validateDeviceStatusMessage(fields) ==
  /\ Includes({"DEVICE_STATUS"}, fields, "messageType")
  /\ TypeOf(fields, "timestamp") = "number"
  /\ TypeOf(fields, "deviceId") = "string"
  /\ TypeOf(fields, "wellId") = "string"
  /\ TypeOf(fields, "signature") = "string"
  /\ Includes({"ONLINE", "OFFLINE", "MAINTENANCE", "ERROR"}, fields, "status")
  /\ TypeOf(fields, "batteryLevel") = "number"
  /\ TypeOf(fields, "signalStrength") = "number"
  /\ TypeOf(fields, "lastMaintenance") = "number"
  /\ JSTruthy(fields, "diagnostics")
  /\ TypeOf(fields, "diagnostics") = "object"

\* validateHCSMessage: reading a property of null throws a TypeError; any
\* falsy value the validators return is "false"
ValidateHCSMessage(payload) ==
  IF payload.kind = "null" THEN "throws"
  ELSE IF Includes({"WATER_FLOW"}, payload.fields, "messageType")
       THEN IF validateWaterFlowMessage(payload.fields) THEN "true" ELSE "false"
  ELSE IF Includes({"DEVICE_STATUS"}, payload.fields, "messageType")
       THEN IF validateDeviceStatusMessage(payload.fields) THEN "true" ELSE "false"
  ELSE "false"

\* JSON.stringify of one value: JSON has no text for NaN and Infinity and
\* writes null for them
ToJSON(v) ==
  IF v.type = "number"
  THEN IF v.val \in {"NaN", "Infinity"}
       THEN [json |-> "null", text |-> "null"]
       ELSE [json |-> "number", text |-> v.val]
  ELSE IF v.type = "string" THEN [json |-> "string", text |-> v.val]
  ELSE IF v = JSNull THEN [json |-> "null", text |-> "null"]
  ELSE [json |-> "object", text |-> v.val]

\* JSON.parse of one value
FromJSON(j) ==
  IF j.json = "number" THEN JSNumber(j.text)
  ELSE IF j.json = "string" THEN JSString(j.text)
  ELSE IF j.json = "null" THEN JSNull
  ELSE [type |-> "object", val |-> j.text]

\* JSON.stringify(message): the text of null, or of the object's properties
Stringify(payload) ==
  [json |-> payload.kind,
   members |-> [f \in DOMAIN payload.fields |-> ToJSON(payload.fields[f])]]

\* JSON.parse(data)
Parse(data) ==
  [kind |-> data.json,
   fields |-> [f \in DOMAIN data.members |-> FromJSON(data.members[f])]]

\* deserializeMessage: the parsed payload if it validates, null when it does
\* not or when validation throws
DeserializeMessage(data) ==
  IF ValidateHCSMessage(Parse(data)) = "true" THEN Parse(data) ELSE NullPayload

NoData == [json |-> "none", members |-> <<>>]
NoPayload == [kind |-> "none", fields |-> <<>>]

MFInit ==
  /\ codecCall = "none"
  /\ codecMessage = NoPayload
  /\ codecData = NoData
  /\ codecResult = NoPayload
  /\ codecValid = "none"

mfFrame == UNCHANGED <<now, smVars, mnVars, vpVars, cbVars>>

validateHCSMessage(payload) ==
  /\ mfFrame
  /\ codecCall' = "validate"
  /\ codecMessage' = payload
  /\ codecValid' = ValidateHCSMessage(payload)
  /\ codecData' = NoData
  /\ codecResult' = NoPayload

serializeMessage(payload) ==
  /\ mfFrame
  /\ codecCall' = "serialize"
  /\ codecMessage' = payload
  /\ codecData' = Stringify(payload)
  /\ codecResult' = NoPayload
  /\ codecValid' = "none"

\* deserializeMessage applied to the text serializeMessage returned
deserializeMessage ==
  /\ codecCall = "serialize"
  /\ mfFrame
  /\ codecCall' = "deserialize"
  /\ codecResult' = DeserializeMessage(codecData)
  /\ UNCHANGED <<codecMessage, codecData, codecValid>>

\* the functions of the module applied to every payload
CodecNext ==
  \/ \E payload \in Payloads : validateHCSMessage(payload)
  \/ \E payload \in {x \in Payloads : x.kind = "object"} : serializeMessage(payload)
  \/ deserializeMessage

(***************************************************************************)
(* Subscribers: the callbacks registered with the client and the manager,  *)
(* and the calls the forEach loops of the code make of them                *)
(***************************************************************************)

\* the calls handlePollError made of the error callbacks in the last step
ErrorCalls == IF errorRaised THEN Called(errorCallbacks) ELSE << >>

\* the calls the last operation of the manager made: emitSessionEvent for
\* each session event, the device callbacks for a liveness report
SubscriberCalls(event) ==
  IF event[1] = "deviceStatus" THEN Called(deviceCallbacks)
  ELSE Called(sessionCallbacks[event[1]])

CBInit ==
  /\ errorCallbacks = << >>
  /\ sessionCallbacks = [event \in SessionEvents |-> << >>]
  /\ deviceCallbacks = << >>

\* onError(callback)
onError(callback) ==
  /\ Len(errorCallbacks) < MaxCallbacks
  /\ errorCallbacks' = Append(errorCallbacks, callback)
  /\ received' = << >>
  /\ errorRaised' = FALSE
  /\ UNCHANGED <<lastSequenceNumber, isPolling, retryCount, pollTimeout, orphanTimeouts,
                 scheduledDelay, inflight, topic, delivered, lastDelivered, log,
                 messageCallbacks, exhausted>>
  /\ UNCHANGED <<now, smVars, vpVars, mfVars, sessionCallbacks, deviceCallbacks>>

\* offError(callback): indexOf and splice remove its first registration
offError(callback) ==
  /\ errorCallbacks' =
       IF \E i \in DOMAIN errorCallbacks : errorCallbacks[i] = callback
       THEN LET index == CHOOSE i \in DOMAIN errorCallbacks :
                           /\ errorCallbacks[i] = callback
                           /\ \A j \in 1..(i - 1) : errorCallbacks[j] # callback
            IN SubSeq(errorCallbacks, 1, index - 1)
               \o SubSeq(errorCallbacks, index + 1, Len(errorCallbacks))
       ELSE errorCallbacks
  /\ received' = << >>
  /\ errorRaised' = FALSE
  /\ UNCHANGED <<lastSequenceNumber, isPolling, retryCount, pollTimeout, orphanTimeouts,
                 scheduledDelay, inflight, topic, delivered, lastDelivered, log,
                 messageCallbacks, exhausted>>
  /\ UNCHANGED <<now, smVars, vpVars, mfVars, sessionCallbacks, deviceCallbacks>>

\* the client's destroy(): stopPolling(), then both callback arrays are
\* replaced by empty ones
destroyClient ==
  /\ received' = << >>
  /\ log' = log
  /\ isPolling' = FALSE
  /\ pollTimeout' = "null"
  /\ errorRaised' = FALSE
  /\ messageCallbacks' = << >>
  /\ errorCallbacks' = << >>
  /\ UNCHANGED <<lastSequenceNumber, retryCount, orphanTimeouts, scheduledDelay,
                 inflight, topic, delivered, lastDelivered, exhausted>>
  /\ UNCHANGED <<now, smVars, vpVars, mfVars, sessionCallbacks, deviceCallbacks>>

\* onSessionEvent(event, callback)
onSessionEvent(event, callback) ==
  /\ Len(sessionCallbacks[event]) < MaxCallbacks
  /\ sessionCallbacks' =
       [sessionCallbacks EXCEPT ![event] = Append(sessionCallbacks[event], callback)]
  /\ emitted' = {}
  /\ returned' = "void"
  /\ sessionsToRemove' = {}
  /\ UNCHANGED <<activeSessions, deviceStatuses, cleanupInterval>>
  /\ UNCHANGED <<now, mnVars, vpVars, mfVars, errorCallbacks, deviceCallbacks>>

\* onDeviceStatus(callback)
onDeviceStatus(callback) ==
  /\ Len(deviceCallbacks) < MaxCallbacks
  /\ deviceCallbacks' = Append(deviceCallbacks, callback)
  /\ emitted' = {}
  /\ returned' = "void"
  /\ sessionsToRemove' = {}
  /\ UNCHANGED <<activeSessions, deviceStatuses, cleanupInterval>>
  /\ UNCHANGED <<now, mnVars, vpVars, mfVars, errorCallbacks, sessionCallbacks>>

Init == SMInit /\ MNInit /\ VPInit /\ MFInit /\ CBInit /\ now = 1

CodecSpec == Init /\ [][CodecNext]_vars

\* the client and the manager are separate objects with no state in common:
\* a run of the subscribers' scenario uses one of them
ClientUnused ==
  /\ messageCallbacks = << >> /\ errorCallbacks = << >>
  /\ topic = 0 /\ ~isPolling /\ retryCount = 0 /\ Loops = 0

ManagerUnused ==
  /\ activeSessions = <<>> /\ deviceStatuses = <<>>
  /\ deviceCallbacks = << >>
  /\ \A event \in SessionEvents : sessionCallbacks[event] = << >>

\* subscribers, some of whose callbacks throw: message and error callbacks of
\* a client whose fetches succeed or fail, and callbacks for the created and
\* cancelled events and for the liveness reports of a manager running the
\* session S1 on device D1
CallbackNext ==
  \/ \E c \in CallbackIds : ManagerUnused /\ onMessage(c)
  \/ \E c \in CallbackIds : ManagerUnused /\ onError(c)
  \/ ManagerUnused /\ topicGrows(Entry(SampleFlow(TRUE)))
  \/ ManagerUnused /\ startPolling(0)
  \/ ManagerUnused /\ timeoutFires
  \/ \E f \in Fetches, snapshot \in 0..MaxTopic :
        ManagerUnused /\ pollResolved(f, snapshot)
  \/ \E f \in Fetches : ManagerUnused /\ pollRejected(f)
  \/ \E event \in {"created", "cancelled"}, c \in CallbackIds :
        ClientUnused /\ onSessionEvent(event, c)
  \/ \E c \in CallbackIds : ClientUnused /\ onDeviceStatus(c)
  \/ \E m \in StatusMessages({"D1"}) : ClientUnused /\ processMessage(TRUE, m)
  \/ \E u \in SessionUsers, w \in WellIds, mv \in MaxVolumes, p \in Prices :
        ClientUnused /\ createSession("S1", u, "D1", w, mv, p)

CallbackSpec == Init /\ [][CallbackNext]_vars

CheckSpec == Init /\ [][CheckNext]_vars

ClientSpec == Init /\ [][ClientNext]_vars

\* the fetch poll() awaits settles: the request resolves or rejects, or
\* fetchWithTimeout aborts it, and the body read by response.json() arrives.
\* The abort timer is cleared as soon as the response headers arrive, so
\* nothing in the client forces this step: a fetch may stay in flight for ever
FetchSettles ==
  \E f \in Fetches :
    \/ \E snapshot \in 0..MaxTopic : pollResolved(f, snapshot)
    \/ pollRejected(f)

\* the client under a scheduler that fires every pending timeout (setTimeout)
ClientFairness ==
  /\ WF_vars(timeoutFires)
  /\ WF_vars(orphanTimeoutFires)

FairClientSpec == Init /\ [][ClientNext]_vars /\ ClientFairness

VerifySpec == Init /\ [][VerifyNext]_vars

\* one poll loop delivering the entries of a topic to the registered message
\* callbacks, with the device D1 registered in the pipeline or not
DeliveryNext ==
  \/ \E c \in CallbackIds : onMessage(c)
  \/ \E c \in CallbackIds : offMessage(c)
  \/ registerDevice("o1", "D1", "W1", TRUE, now)
  \/ \E e \in Entries : topicGrows(e)
  \/ startPolling(0)
  \/ timeoutFires
  \/ \E f \in Fetches, snapshot \in 0..MaxTopic : pollResolved(f, snapshot)

DeliverySpec == Init /\ [][DeliveryNext]_vars

\* the poll loops of a client whose topic stays empty: starts, stops, timeouts,
\* fetches that succeed with an empty page and fetches that fail, with error
\* callbacks registered and removed and the client destroyed
RetryNext ==
  \/ startPolling(0)
  \/ stopPolling
  \/ destroyClient
  \/ \E c \in CallbackIds : onError(c)
  \/ \E c \in CallbackIds : offError(c)
  \/ timeoutFires
  \/ orphanTimeoutFires
  \/ \E f \in Fetches, snapshot \in 0..MaxTopic : pollResolved(f, snapshot)
  \/ \E f \in Fetches : pollRejected(f)

RetrySpec == Init /\ [][RetryNext]_vars

\* a client that is started again only once its earlier poll loop has ended
\* (no fetch awaited, no timeout pending), reading a topic that grows
RestartNext ==
  \/ \E n \in 0..MaxTopic : (isPolling \/ Loops = 0) /\ startPolling(n)
  \/ stopPolling
  \/ timeoutFires
  \/ \E f \in Fetches, snapshot \in 0..MaxTopic : pollResolved(f, snapshot)
  \/ \E f \in Fetches : pollRejected(f)
  \/ topicGrows(Entry(SampleFlow(TRUE)))

RestartSpec == Init /\ [][RestartNext]_vars

\* the maximum volumes of the sessions of FlowNext: one that the largest reading
\* reaches and one that no reading reaches
FlowMaxVolumes == {2, 3}

\* the routing of messages to sessions: the session S1 on the device D1, the
\* status reports of D1, flow messages naming S1 from either device and user
\* with every reading and valve state, messages that verification rejected,
\* and the clock
FlowNext ==
  \/ \E u \in SessionUsers, w \in WellIds, mv \in FlowMaxVolumes, p \in Prices :
        createSession("S1", u, "D1", w, mv, p)
  \/ \E m \in StatusMessages({"D1"}) : processMessage(TRUE, m)
  \/ \E m \in FlowMessages({"S1"}, DeviceIds, Volumes) :
        HistoryRoom(m, MaxFlowEvents) /\ processMessage(TRUE, m)
  \/ \E m \in RejectedMessages({"S1"}, DeviceIds) : processMessage(FALSE, m)
  \/ Tick

FlowSpec == Init /\ [][FlowNext]_vars

\* the metering of one session: the device D1 comes online, the session S1
\* starts on it with a maxVolume of 5 litres, and readings of 1, 3 and 5 litres
\* arrive from its user and device in any order, the valve open or closed
MeteredVolumes == {1, 3, 5}
MeteredMaxVolumes == {5}

MeteringFlows ==
  {m \in FlowMessages({"S1"}, {"D1"}, MeteredVolumes) : m.userId \in SessionUsers}

MeteringNext ==
  \/ \E m \in {x \in StatusMessages({"D1"}) : x.status = "ONLINE"} :
        processMessage(TRUE, m)
  \/ \E u \in SessionUsers, w \in WellIds, mv \in MeteredMaxVolumes, p \in Prices :
        createSession("S1", u, "D1", w, mv, p)
  \/ \E m \in MeteringFlows : HistoryRoom(m, MaxReadings) /\ processMessage(TRUE, m)

MeteringSpec == Init /\ [][MeteringNext]_vars

\* the device each session of SweepNext runs on
SweepDevice(sid) == IF sid = "S1" THEN "D1" ELSE "D2"

\* the flow messages that keep a session busy: readings of 1 litre with the
\* valve open, from the session's user and device
SweepFlows ==
  {m \in FlowMessages(SessionIds, DeviceIds, {1}) :
     /\ m.userId \in SessionUsers
     /\ m.deviceId = SweepDevice(m.sessionId)
     /\ m.valveStatus = "OPEN"}

\* the life of sessions under the periodic sweep: devices come online, the
\* sessions S1 on D1 and S2 on D2 start, take readings, are ended by their
\* caller or by the sweep, and the clock advances
SweepNext ==
  \/ \E sid \in SessionIds, u \in SessionUsers, w \in WellIds,
        mv \in MaxVolumes, p \in Prices :
        createSession(sid, u, SweepDevice(sid), w, mv, p)
  \/ \E m \in {x \in StatusMessages(DeviceIds) : x.status = "ONLINE"} :
        processMessage(TRUE, m)
  \/ \E m \in SweepFlows : HistoryRoom(m, MaxFlowEvents) /\ processMessage(TRUE, m)
  \/ \E sid \in SessionIds : completeSession(sid)
  \/ \E sid \in SessionIds, r \in CallerReasons : cancelSession(sid, r)
  \/ cleanupOldSessions
  \/ Tick

SweepSpec == Init /\ [][SweepNext]_vars

\* the admission of sessions: the devices' liveness reports, createSession and
\* the two ways a caller ends a session, for two session ids and both devices
AdmissionNext ==
  \/ \E sid \in SessionIds, u \in SessionUsers, d \in DeviceIds, w \in WellIds,
        mv \in MaxVolumes, p \in Prices : createSession(sid, u, d, w, mv, p)
  \/ \E m \in StatusMessages(DeviceIds) : processMessage(TRUE, m)
  \/ \E sid \in SessionIds : completeSession(sid)
  \/ \E sid \in SessionIds, r \in CallerReasons : cancelSession(sid, r)

AdmissionSpec == Init /\ [][AdmissionNext]_vars

\* a manager that is destroyed and used afterwards: device D1 reports, the
\* session S1 starts on it and is completed, the sweep's timer fires, time
\* passes
DestroyNext ==
  \/ \E u \in SessionUsers, w \in WellIds, mv \in MaxVolumes, p \in Prices :
        createSession("S1", u, "D1", w, mv, p)
  \/ \E m \in StatusMessages({"D1"}) : processMessage(TRUE, m)
  \/ completeSession("S1")
  \/ cleanupOldSessions
  \/ destroy
  \/ Tick

DestroySpec == Init /\ [][DestroyNext]_vars

\* a manager that is never destroyed: both devices come online, a caller
\* starts the session S1 on either of them, readings of S1 arrive, and the
\* interval timer of startCleanupTimer keeps firing while time advances
TerminationNext ==
  \/ \E u \in SessionUsers, d \in DeviceIds, w \in WellIds,
        mv \in MaxVolumes, p \in Prices : createSession("S1", u, d, w, mv, p)
  \/ \E m \in {x \in StatusMessages(DeviceIds) : x.status = "ONLINE"} :
        processMessage(TRUE, m)
  \/ \E m \in {x \in FlowMessages({"S1"}, DeviceIds, {1}) :
                  x.userId \in SessionUsers /\ x.valveStatus = "OPEN"} :
        HistoryRoom(m, MaxFlowEvents) /\ processMessage(TRUE, m)
  \/ cleanupOldSessions
  \/ Tick

\* setInterval fires the sweep again and again (lines 764-768) and the clock
\* advances, up to the bound of the model
FairTerminationSpec ==
  /\ Init
  /\ [][TerminationNext]_vars
  /\ WF_vars(cleanupOldSessions)
  /\ WF_vars(Tick)

\* one session id used on both devices, and the manager's destruction
SessionNext ==
  SMNext({"S1"}, DeviceIds, FlowMessages({"S1"}, DeviceIds, Volumes)) \/ destroy

SessionSpec == Init /\ [][SessionNext]_vars

\* two session ids contending for one device, whose flow messages are the
\* readings of a closed valve
RegistryFlows ==
  {m \in FlowMessages(SessionIds, {"D1"}, {1}) : m.valveStatus = "CLOSED"}

RegistryNext == SMNext(SessionIds, {"D1"}, RegistryFlows)

RegistrySpec == Init /\ [][RegistryNext]_vars

\* every component, interleaved
Next ==
  \/ SessionNext \/ RegistryNext \/ AdmissionNext \/ VerifyNext
  \/ ClientNext \/ DeliveryNext \/ RetryNext \/ RestartNext
  \/ FlowNext \/ SweepNext \/ CheckNext \/ DestroyNext \/ TerminationNext
  \/ CodecNext \/ CallbackNext \/ MeteringNext

Spec == Init /\ [][Next]_vars

(***************************************************************************)
(* Claims about the SessionManager                                         *)
(***************************************************************************)

\* C1: in every reachable state, every device has at most one session of the
\* registry that is active.
AtMostOneActiveSession ==
  \A d \in DeviceIds :
    Cardinality(GetActiveSessionForDevice(activeSessions, d)) <= 1

\* C1 witness: a second createSession for a device that is online and already
\* has an active session was rejected, with both session ids in the registry.
AtMostOneActiveWitness ==
  /\ returned = "throw"
  /\ "D1" \in DOMAIN deviceStatuses
  /\ deviceStatuses["D1"].status = "ONLINE"
  /\ DOMAIN activeSessions = SessionIds
  /\ Cardinality(GetActiveSessionForDevice(activeSessions, "D1")) = 1

\* a step that is a successful createSession
IsCreateStep == returned' = "session"

\* C2: completed, cancelled and error are terminal: no step of completeSession,
\* cancelSession, errorSession, processMessage or the sweep changes the status
\* of a session that has one of them.
TerminalStatusIsFinal ==
  [][\A sid \in DOMAIN activeSessions :
       (/\ activeSessions[sid].status \in TerminalStatuses
        /\ sid \in DOMAIN activeSessions'
        /\ ~IsCreateStep)
       => activeSessions'[sid].status = activeSessions[sid].status]_vars

\* a step that is completeSession, cancelSession or errorSession of sid
IsTerminateStep(sid) ==
  \/ completeSession(sid)
  \/ \E r \in CallerReasons : cancelSession(sid, r)
  \/ errorSession(sid, "payment failed")

\* C7: completeSession, cancelSession and errorSession of a session id that is
\* absent or already terminal return false, emit no event and change nothing.
TerminateIsIdempotent ==
  [][\A sid \in SessionIds :
       (~CompleteGuard(activeSessions, sid) /\ IsTerminateStep(sid))
       => /\ returned' = "false"
          /\ emitted' = {}
          /\ activeSessions' = activeSessions]_vars

\* C8: a valid flow message whose ids match a session that is already terminal
\* leaves its flowEvents, totalVolume, totalCost and lastActivity unchanged.
TerminalSessionImmutable ==
  [][\A m \in FlowMessages(SessionIds, DeviceIds, Volumes) :
       (/\ FlowMatches(activeSessions, m)
        /\ activeSessions[m.sessionId].status \in TerminalStatuses
        /\ processMessage(TRUE, m))
       => LET old == activeSessions[m.sessionId]
              new == activeSessions'[m.sessionId]
          IN /\ new.flowEvents = old.flowEvents
             /\ new.totalVolume = old.totalVolume
             /\ new.totalCost = old.totalCost
             /\ new.lastActivity = old.lastActivity]_vars

\* C19: createSession for a device without a liveness record, with a record
\* that is not ONLINE or with an active session is rejected, adds and changes
\* no session and emits no event.
CreateSessionRejects ==
  [][\A sid \in SessionIds, u \in SessionUsers, d \in DeviceIds, w \in WellIds,
        mv \in MaxVolumes, p \in Prices :
       (/\ createSession(sid, u, d, w, mv, p)
        /\ \/ d \notin DOMAIN deviceStatuses
           \/ deviceStatuses[d].status # "ONLINE"
           \/ \E x \in DOMAIN activeSessions :
                activeSessions[x].deviceId = d /\ activeSessions[x].status = "active")
       => /\ returned' = "throw"
          /\ activeSessions' = activeSessions
          /\ emitted' = {}]_vars

\* C19 witness: createSession was rejected while one device had no liveness
\* record, the other was not ONLINE and no session was active.
CreateSessionRejectsWitness ==
  /\ returned = "throw"
  /\ DOMAIN deviceStatuses # {}
  /\ DOMAIN deviceStatuses # DeviceIds
  /\ \A d \in DOMAIN deviceStatuses : deviceStatuses[d].status # "ONLINE"
  /\ \A x \in DOMAIN activeSessions : activeSessions[x].status # "active"

\* C20: createSession with a session id that is already in the registry leaves
\* the session of that id as it was.
SessionIdsUnique ==
  [][\A sid \in SessionIds, u \in SessionUsers, d \in DeviceIds, w \in WellIds,
        mv \in MaxVolumes, p \in Prices :
       (createSession(sid, u, d, w, mv, p) /\ sid \in DOMAIN activeSessions)
       => /\ sid \in DOMAIN activeSessions'
          /\ activeSessions'[sid] = activeSessions[sid]]_vars

\* C21: every session's totalCost is its totalVolume times its pricePerLiter,
\* and its totalVolume is the cumulative volume reported by the flow message
\* it accepted last (0 before any).
CostFollowsVolume ==
  \A sid \in DOMAIN activeSessions :
    LET session == activeSessions[sid]
        events == session.flowEvents
    IN /\ session.totalCost = session.totalVolume * session.pricePerLiter
       /\ session.totalVolume
            = IF events = << >> THEN 0 ELSE events[Len(events)].totalVolume

\* C21 witness: the session S1 with a maxVolume of 5 litres at price 3 took
\* readings of 1, 3 and 5 litres, the valve open, open and closed, and is
\* completed: volume 5, cost 15.
CostFollowsVolumeWitness ==
  /\ "S1" \in DOMAIN activeSessions
  /\ activeSessions["S1"].status = "completed"
  /\ activeSessions["S1"].maxVolume = 5
  /\ activeSessions["S1"].flowEvents =
       <<[totalVolume |-> 1, valveStatus |-> "OPEN"],
         [totalVolume |-> 3, valveStatus |-> "OPEN"],
         [totalVolume |-> 5, valveStatus |-> "CLOSED"]>>
  /\ activeSessions["S1"].totalVolume = 5
  /\ activeSessions["S1"].totalCost = 15

\* C22: a valid flow message that matches an active session completes it when
\* the valve is CLOSED or the session's totalVolume has reached its maxVolume,
\* and leaves it active otherwise.
CompletedIffClosedOrFull ==
  [][\A m \in FlowMessages({"S1"}, DeviceIds, Volumes) :
       (/\ m.sessionId \in DOMAIN activeSessions
        /\ activeSessions[m.sessionId].deviceId = m.deviceId
        /\ activeSessions[m.sessionId].userId = m.userId
        /\ activeSessions[m.sessionId].status = "active"
        /\ processMessage(TRUE, m))
       => LET after == activeSessions'[m.sessionId]
          IN IF m.valveStatus = "CLOSED" \/ after.totalVolume >= after.maxVolume
             THEN after.status = "completed" /\ after.endTime = now
             ELSE after.status = "active" /\ after.endTime = NoTime]_vars

\* C22 witness: an OPEN reading of 2 litres completed a session whose maxVolume
\* is 2.
CompletedWhenFullWitness ==
  \E sid \in DOMAIN activeSessions :
    /\ activeSessions[sid].status = "completed"
    /\ activeSessions[sid].maxVolume = 2
    /\ activeSessions[sid].flowEvents = <<[totalVolume |-> 2, valveStatus |-> "OPEN"]>>
    /\ emitted = {<<"completed", sid>>, <<"updated", sid>>}

\* C23: processMessage with a message that is not valid changes no session and
\* no device record and emits no event.
InvalidMessageDropped ==
  [][\A m \in RejectedMessages({"S1"}, DeviceIds) :
       processMessage(FALSE, m)
       => /\ activeSessions' = activeSessions
          /\ deviceStatuses' = deviceStatuses
          /\ emitted' = {}]_vars

\* C23 witness: an active session stands at 2 litres after a step that emitted
\* nothing, so that the rejected reading of 1 litre for it is among the
\* messages dropped.
InvalidMessageWitness ==
  /\ emitted = {}
  /\ returned = "void"
  /\ \E sid \in DOMAIN activeSessions :
       /\ activeSessions[sid].status = "active"
       /\ activeSessions[sid].totalVolume = 2
       /\ activeSessions[sid].deviceId \in DOMAIN deviceStatuses
       /\ deviceStatuses[activeSessions[sid].deviceId].status = "ONLINE"

\* C24: a valid flow message whose deviceId or userId is not that of the session
\* it names changes no session and emits no event.
MismatchedFlowDropped ==
  [][\A m \in FlowMessages({"S1"}, DeviceIds, Volumes) :
       (/\ m.sessionId \in DOMAIN activeSessions
        /\ \/ activeSessions[m.sessionId].deviceId # m.deviceId
           \/ activeSessions[m.sessionId].userId # m.userId
        /\ processMessage(TRUE, m))
       => /\ activeSessions' = activeSessions
          /\ emitted' = {}]_vars

\* C24 witness: a step that emitted nothing left an active session with its
\* one flow event and an earlier lastActivity: the flow messages of the other
\* device and of the other user are dropped in such states.
MismatchedFlowWitness ==
  /\ emitted = {}
  /\ returned = "void"
  /\ \E sid \in DOMAIN activeSessions :
       /\ activeSessions[sid].status = "active"
       /\ Len(activeSessions[sid].flowEvents) = 1
       /\ activeSessions[sid].lastActivity < now

\* the stored reasons that contain "offline"
OfflineReasons == {"Device went offline"}

\* C25: a valid OFFLINE status message for a device with an active session
\* cancels that session with a stored reason containing "offline" and replaces
\* the device's liveness record by the message's values.
OfflineCancelsSession ==
  [][\A m \in StatusMessages(DeviceIds) :
       (/\ m.status = "OFFLINE"
        /\ \E sid \in DOMAIN activeSessions :
             activeSessions[sid].deviceId = m.deviceId
             /\ activeSessions[sid].status = "active"
        /\ processMessage(TRUE, m))
       => /\ \A sid \in DOMAIN activeSessions :
               (activeSessions[sid].deviceId = m.deviceId
                /\ activeSessions[sid].status = "active")
               => /\ activeSessions'[sid].status = "cancelled"
                  /\ activeSessions'[sid].errorMessage \in OfflineReasons
          /\ deviceStatuses'[m.deviceId] = [wellId |-> m.wellId, status |-> "OFFLINE"]]_vars

\* C25 witness: the OFFLINE report of a device cancelled its session, which
\* had taken a flow event.
OfflineCancelsWitness ==
  \E sid \in DOMAIN activeSessions :
    /\ emitted = {<<"cancelled", sid>>, <<"deviceStatus", activeSessions[sid].deviceId>>}
    /\ activeSessions[sid].status = "cancelled"
    /\ activeSessions[sid].errorMessage = "Device went offline"
    /\ activeSessions[sid].flowEvents # << >>
    /\ deviceStatuses[activeSessions[sid].deviceId].status = "OFFLINE"

\* C26: a sweep cancels every active session idle for more than sessionTimeout,
\* completes every other active session older than maxSessionDuration and
\* leaves the remaining active sessions as they were.
SweepTimesOut ==
  [][cleanupOldSessions
     => \A sid \in DOMAIN activeSessions :
          activeSessions[sid].status = "active"
          => /\ sid \in DOMAIN activeSessions'
             /\ IF now - activeSessions[sid].lastActivity > SessionTimeout
                THEN /\ activeSessions'[sid].status = "cancelled"
                     /\ <<"cancelled", sid>> \in emitted'
                ELSE IF now - activeSessions[sid].startTime > MaxSessionDuration
                     THEN /\ activeSessions'[sid].status = "completed"
                          /\ <<"completed", sid>> \in emitted'
                     ELSE activeSessions'[sid] = activeSessions[sid]]_vars

\* C26 witness: one sweep cancelled an idle session and completed a session
\* that was past the maximum duration but had taken a reading since.
SweepTimesOutWitness ==
  \E a, b \in DOMAIN activeSessions :
    /\ emitted = {<<"cancelled", a>>, <<"completed", b>>}
    /\ activeSessions[a].status = "cancelled"
    /\ activeSessions[a].endTime = now
    /\ activeSessions[b].status = "completed"
    /\ activeSessions[b].endTime = now
    /\ now - activeSessions[b].lastActivity <= SessionTimeout
    /\ now - activeSessions[b].startTime > MaxSessionDuration

\* C27: a sweep deletes exactly the sessions that were terminal before it and
\* ended more than the retention window ago; active sessions, the sessions the
\* sweep itself terminates and terminal sessions within the window stay.
SweepEvictsOld ==
  [][cleanupOldSessions
     => LET old == {sid \in DOMAIN activeSessions :
                      /\ activeSessions[sid].status \in TerminalStatuses
                      /\ now - activeSessions[sid].endTime > RetentionWindow}
        IN /\ DOMAIN activeSessions' = DOMAIN activeSessions \ old
           /\ sessionsToRemove' = old]_vars

\* C27 witness: a sweep deleted one session and kept the other, which it had
\* just cancelled for inactivity.
SweepEvictsOldWitness ==
  \E gone \in sessionsToRemove, kept \in DOMAIN activeSessions :
    /\ gone \notin DOMAIN activeSessions
    /\ emitted = {<<"cancelled", kept>>}
    /\ activeSessions[kept].status = "cancelled"
    /\ activeSessions[kept].endTime = now

\* C28: the reason stored on a session the sweep cancels for inactivity is not
\* one a caller's cancelSession stores, and the reason stored on a session the
\* sweep completes for its duration is not the one a caller's completeSession
\* leaves.
SweepReasonDistinct ==
  [][cleanupOldSessions
     => \A sid \in DOMAIN activeSessions \cap DOMAIN activeSessions' :
          LET before == activeSessions[sid]
              after == activeSessions'[sid]
          IN /\ (before.status = "active" /\ after.status = "cancelled")
                => \A r \in CallerReasons :
                     after.errorMessage # Cancelled(before, r).errorMessage
             /\ (before.status = "active" /\ after.status = "completed")
                => after.errorMessage # Completed(before).errorMessage]_vars

(***************************************************************************)
(* Claims about the MirrorNodeClient                                       *)
(***************************************************************************)

\* the highest sequence number delivered since startPolling
MaxDelivered(seqs) == CHOOSE n \in seqs : \A k \in seqs : k <= n

\* C4: a successful poll cycle never decreases the cursor, and leaves it equal
\* to the highest sequence number delivered to the subscribers.
CursorMonotone ==
  [][\A f \in Fetches, snapshot \in 0..MaxTopic :
       pollResolved(f, snapshot)
       => /\ lastSequenceNumber' >= lastSequenceNumber
          /\ delivered' # {} => lastSequenceNumber' = MaxDelivered(delivered')]_vars

\* C5: at most one poll cycle is in progress or scheduled at any time.
PollCyclesNeverOverlap == Loops <= 1

\* C6: from stopPolling to the next startPolling no message is delivered, the
\* cursor does not change and no fetch is started.
StoppedClientIsQuiet ==
  [][(~isPolling /\ ~isPolling')
       => /\ delivered' = delivered
          /\ lastDelivered' = lastDelivered
          /\ lastSequenceNumber' = lastSequenceNumber
          /\ BagCardinality(inflight') <= BagCardinality(inflight)]_vars

\* C9: while polling, no message is delivered after a message with a larger
\* sequence number delivered since startPolling.
DeliveredInOrder ==
  [][\A f \in Fetches, snapshot \in 0..MaxTopic :
       (isPolling /\ pollResolved(f, snapshot))
       => LET messages == Page(f.from, snapshot)
          IN \A i \in DOMAIN messages :
               /\ messages[i] >= lastDelivered
               /\ \A j \in DOMAIN messages : i < j => messages[i] <= messages[j]]_vars

\* C10: while polling, no sequence number delivered since startPolling is
\* delivered again.
DeliveredOnce ==
  [][\A f \in Fetches, snapshot \in 0..MaxTopic :
       (isPolling /\ pollResolved(f, snapshot))
       => LET messages == Page(f.from, snapshot)
          IN \A i \in DOMAIN messages :
               /\ messages[i] \notin delivered
               /\ \A j \in DOMAIN messages : i # j => messages[i] # messages[j]]_vars

\* C11: while polling stays active and every fetch in flight eventually
\* settles, every entry of the log above the cursor is eventually delivered to
\* the subscribers (or polling has stopped).
NoEntrySkipped ==
  WF_vars(FetchSettles)
    => \A n \in 1..MaxTopic :
         (isPolling /\ lastSequenceNumber < n /\ n <= topic)
           ~> (n \in delivered \/ ~isPolling)

\* C14: a poll cycle whose fetch fails leaves the cursor unchanged and passes
\* no message to the message callbacks.
FailedFetchKeepsCursor ==
  [][\A f \in Fetches :
       pollRejected(f)
       => /\ lastSequenceNumber' = lastSequenceNumber
          /\ delivered' = delivered
          /\ lastDelivered' = lastDelivered
          /\ received' = << >>]_vars

\* C14 witness: a fetch failed after messages had been delivered and the cursor
\* had advanced.
FailedFetchWitness ==
  /\ errorRaised
  /\ retryCount > 0
  /\ lastSequenceNumber > 0
  /\ delivered # {}

\* C15: the failure that uses up the retries stops polling and reaches the
\* error callbacks, and from then to the next fresh startPolling the client is
\* not polling, starts no fetch and sets no timeout.
RetryExhaustionStops ==
  [][/\ \A f \in Fetches :
          (pollRejected(f) /\ retryCount + 1 >= MaxRetries)
          => (~isPolling' /\ errorRaised' /\ pollTimeout' # "pending")
     /\ (exhausted /\ exhausted')
        => /\ ~isPolling'
           /\ BagCardinality(inflight') <= BagCardinality(inflight)
           /\ pollTimeout' = "pending" => pollTimeout = "pending"
           /\ orphanTimeouts' <= orphanTimeouts]_vars

\* C16: a failed poll cycle that leaves retries schedules the next poll after
\* min(pollInterval * 2^retryCount, 60000) ms, retryCount being the counter
\* when the retry is scheduled, and never after more than 60 seconds.
BackoffDelayCapped ==
  [][\A f \in Fetches :
       (pollRejected(f) /\ retryCount' < MaxRetries)
       => /\ pollTimeout' = "pending"
          /\ scheduledDelay' =
               (IF PollInterval * 2^retryCount' <= 60000
                THEN PollInterval * 2^retryCount' ELSE 60000)
          /\ scheduledDelay' <= 60000]_vars

\* C16 witness: the fourth failure in a row scheduled its retry at the cap.
BackoffDelayWitness ==
  /\ errorRaised
  /\ isPolling
  /\ retryCount = 4
  /\ pollTimeout = "pending"
  /\ scheduledDelay = 60000

\* C17: a successful poll cycle leaves the retry counter at 0 and, the client
\* still polling, schedules the next poll at the base pollInterval.
SuccessResetsRetries ==
  [][\A f \in Fetches, snapshot \in 0..MaxTopic :
       pollResolved(f, snapshot)
       => /\ retryCount' = 0
          /\ isPolling => (pollTimeout' = "pending" /\ scheduledDelay' = PollInterval)]_vars

\* C17 witness: a poll cycle that found no new message succeeded: the counter
\* is 0, the next poll is scheduled at the base interval and nothing was
\* delivered.
SuccessResetsWitness ==
  /\ isPolling
  /\ ~errorRaised
  /\ retryCount = 0
  /\ pollTimeout = "pending"
  /\ orphanTimeouts = 0
  /\ scheduledDelay = PollInterval
  /\ inflight = EmptyBag
  /\ delivered = {}
  /\ topic = 0

\* C18: startPolling on a client that is not polling sets the retry counter to
\* 0, the cursor to the given sequence number and starts a fetch after it;
\* on a client that is polling it changes neither and starts nothing.
StartPollingFreshOrNoop ==
  [][\A n \in 0..MaxTopic :
       startPolling(n)
       => IF isPolling
          THEN /\ isPolling'
               /\ lastSequenceNumber' = lastSequenceNumber
               /\ retryCount' = retryCount
               /\ inflight' = inflight
               /\ pollTimeout' = pollTimeout
               /\ orphanTimeouts' = orphanTimeouts
          ELSE /\ isPolling'
               /\ retryCount' = 0
               /\ lastSequenceNumber' = n
               /\ inflight' = inflight (+) SetToBag({[from |-> n + 1, issued |-> topic]})]_vars

\* C18 witness: a fresh startPolling(2) on a client that was stopped after
\* four failures in a row had raised the delay to the cap.
StartPollingWitness ==
  /\ isPolling
  /\ ~exhausted
  /\ retryCount = 0
  /\ lastSequenceNumber = 2
  /\ BagIn([from |-> 3, issued |-> topic], inflight)
  /\ delivered = {}
  /\ scheduledDelay = 60000

\* C12: a successful fetch passes every message of its page to every registered
\* message callback, and every message passed as invalid carries reasons.
EveryFetchedMessageDelivered ==
  [][\A f \in Fetches, snapshot \in 0..MaxTopic :
       pollResolved(f, snapshot)
       => LET page == Page(f.from, snapshot)
          IN /\ \A c \in DOMAIN messageCallbacks, i \in DOMAIN page :
                  \E k \in DOMAIN received' :
                    /\ received'[k].callback = messageCallbacks[c]
                    /\ received'[k].message.sequenceNumber = page[i]
             /\ \A k \in DOMAIN received' :
                  ~received'[k].message.isValid
                  => received'[k].message.validationErrors # << >>]_vars

\* C12 witness: a page of an entry that is not JSON and an entry that decodes
\* was passed to two registered callbacks.
EveryFetchedMessageWitness ==
  /\ Len(messageCallbacks) = 2
  /\ Len(received) = 4
  /\ \E k \in DOMAIN received : ~log[received[k].message.sequenceNumber].json
  /\ \E k \in DOMAIN received : log[received[k].message.sequenceNumber].json
  /\ \A c \in CallbackIds : \E k \in DOMAIN received : received[k].callback = c

\* what the pipeline's verifyMessage answers for the message m
PipelineErrors(m) ==
  IF m.deviceId \in DOMAIN deviceRegistry
  THEN VerifyErrors(m) ELSE <<"Device not registered in the system">>

\* C13: the isValid flag passed to the message callbacks for an entry that
\* decodes is the validity the pipeline computes for its message, and an
\* invalid one carries the pipeline's errors.
VerifiedFlagDelivered ==
  [][\A f \in Fetches, snapshot \in 0..MaxTopic :
       pollResolved(f, snapshot)
       => \A k \in DOMAIN received' :
            LET raw == log[received'[k].message.sequenceNumber]
            IN raw.json
               => /\ received'[k].message.isValid = (PipelineErrors(raw.message) = << >>)
                  /\ ~received'[k].message.isValid
                     => received'[k].message.validationErrors = PipelineErrors(raw.message)]_vars

\* C38: no active session belongs to a device whose liveness record says
\* OFFLINE.
NoActiveSessionOffline ==
  \A sid \in DOMAIN activeSessions :
    LET s == activeSessions[sid]
    IN (s.status = "active" /\ s.deviceId \in DOMAIN deviceStatuses)
       => deviceStatuses[s.deviceId].status # "OFFLINE"

\* a device went offline under its session, which was cancelled for it, while
\* the other device still runs an active session
NoActiveSessionOfflineWitness ==
  \E sid, other \in DOMAIN activeSessions :
    /\ activeSessions[sid].status = "cancelled"
    /\ activeSessions[sid].errorMessage = "Device went offline"
    /\ activeSessions[sid].deviceId \in DOMAIN deviceStatuses
    /\ deviceStatuses[activeSessions[sid].deviceId].status = "OFFLINE"
    /\ activeSessions[other].status = "active"

\* C40: a session has an end time exactly when its status is terminal.
EndTimeIffTerminal ==
  \A sid \in DOMAIN activeSessions :
    (activeSessions[sid].endTime # NoTime)
      <=> (activeSessions[sid].status \in TerminalStatuses)

\* a session put into error with its end time, beside an active session that
\* has none
EndTimeIffTerminalWitness ==
  /\ \E sid \in DOMAIN activeSessions :
       activeSessions[sid].status = "error" /\ activeSessions[sid].endTime # NoTime
  /\ \E sid \in DOMAIN activeSessions :
       activeSessions[sid].status = "active" /\ activeSessions[sid].endTime = NoTime

\* C33: destroy leaves the sweep's timer cancelled and both registries empty,
\* and once the timer is cancelled it stays cancelled and no step is a run of
\* the sweep: a session that leaves the active status was completed by its
\* caller or cancelled by its device's OFFLINE report, never timed out.
DestroyStopsSweep ==
  [][/\ destroy
        => /\ ~cleanupInterval'
           /\ activeSessions' = <<>>
           /\ deviceStatuses' = <<>>
           /\ emitted' = {}
     /\ ~cleanupInterval
        => /\ ~cleanupInterval'
           /\ ~cleanupOldSessions
           /\ sessionsToRemove' = {}
           /\ \A sid \in DOMAIN activeSessions \cap DOMAIN activeSessions' :
                (/\ activeSessions[sid].status = "active"
                 /\ activeSessions'[sid].status # "active")
                => \/ /\ activeSessions'[sid].status = "completed"
                      /\ emitted' = {<<"completed", sid>>}
                   \/ /\ activeSessions'[sid].status = "cancelled"
                      /\ activeSessions'[sid].errorMessage = "Device went offline"]_vars

\* after destroy a device reported again and a session was started, which is
\* still active although the sweep would have cancelled it for inactivity
DestroyStopsSweepWitness ==
  /\ ~cleanupInterval
  /\ \E sid \in DOMAIN activeSessions :
       /\ activeSessions[sid].status = "active"
       /\ now - activeSessions[sid].lastActivity > SessionTimeout

\* C39: a session that is active, started early enough for the clock of the
\* model to pass its maximum duration, eventually has a terminal status.
EverySessionTerminates ==
  \A sid \in SessionIds, d \in DeviceIds, t \in Timestamps :
    (/\ sid \in DOMAIN activeSessions
     /\ activeSessions[sid].status = "active"
     /\ activeSessions[sid].deviceId = d
     /\ activeSessions[sid].startTime = t
     /\ t + MaxSessionDuration < MaxTime)
    ~> (/\ sid \in DOMAIN activeSessions
        /\ activeSessions[sid].deviceId = d
        /\ activeSessions[sid].startTime = t
        /\ activeSessions[sid].status \in TerminalStatuses)

\* a callback of the sequence callbacks throws
SomeThrows(callbacks) ==
  \E i \in DOMAIN callbacks : callbacks[i] \in ThrowingCallbacks

\* C32: when a registered callback throws, every callback registered for the
\* event is still called: a successful fetch passes each message of its page
\* to each message callback, moves the cursor to the page's highest sequence
\* number, resets the retry counter and schedules the next poll; a failed
\* fetch calls each error callback, counts one retry, keeps the cursor and
\* schedules the backoff; the manager calls every subscriber of each event it
\* emits and the session and the liveness record are as the event says.
CallbacksIsolated ==
  [][/\ \A f \in Fetches, snapshot \in 0..MaxTopic :
          (/\ BagIn(f, inflight)
           /\ SomeThrows(messageCallbacks)
           /\ pollResolved(f, snapshot))
          => LET page == Page(f.from, snapshot)
             IN /\ Len(received') = Len(page) * Len(messageCallbacks)
                /\ \A c \in DOMAIN messageCallbacks, i \in DOMAIN page :
                     \E k \in DOMAIN received' :
                       /\ received'[k].callback = messageCallbacks[c]
                       /\ received'[k].message.sequenceNumber = page[i]
                /\ lastSequenceNumber' =
                     IF Len(page) > 0 THEN MaxSequence(page) ELSE lastSequenceNumber
                /\ retryCount' = 0
                /\ isPolling' = isPolling
                /\ isPolling => pollTimeout' = "pending" /\ scheduledDelay' = PollInterval
     /\ \A f \in Fetches :
          (/\ BagIn(f, inflight)
           /\ SomeThrows(errorCallbacks)
           /\ pollRejected(f))
          => /\ ErrorCalls' = errorCallbacks
             /\ received' = << >>
             /\ lastSequenceNumber' = lastSequenceNumber
             /\ retryCount' = retryCount + 1
             /\ IF retryCount + 1 >= MaxRetries
                THEN ~isPolling' /\ pollTimeout' = "null"
                ELSE /\ isPolling' = isPolling
                     /\ pollTimeout' = "pending"
                     /\ scheduledDelay' = BackoffDelay(retryCount + 1)
     /\ \A event \in emitted' :
          /\ SubscriberCalls(event)' =
               IF event[1] = "deviceStatus"
               THEN deviceCallbacks ELSE sessionCallbacks[event[1]]
          /\ event[1] = "deviceStatus"
             => /\ event[2] \in DOMAIN deviceStatuses'
                /\ UNCHANGED <<deviceCallbacks, sessionCallbacks>>
          /\ event[1] = "created"
             => /\ event[2] \in DOMAIN activeSessions'
                /\ activeSessions'[event[2]].status = "active"
          /\ event[1] = "cancelled"
             => /\ event[2] \in DOMAIN activeSessions'
                /\ activeSessions'[event[2]].status = "cancelled"]_vars

\* the throwing callback is registered first for messages and its call was
\* followed by the call of the other one, with the cursor moved, no retry
\* counted and the next poll scheduled
CallbacksIsolatedWitness ==
  /\ messageCallbacks = <<"b", "a">>
  /\ Len(received) >= 2
  /\ received[1].callback = "b"
  /\ received[2].callback = "a"
  /\ received[2].message.sequenceNumber = received[1].message.sequenceNumber
  /\ lastSequenceNumber >= 1
  /\ retryCount = 0
  /\ pollTimeout = "pending"

\* C36: the retry counter stays between 0 and maxRetries.
RetryCountBounded == retryCount >= 0 /\ retryCount <= MaxRetries

(***************************************************************************)
(* Claims about the MessageVerificationPipeline                            *)
(***************************************************************************)

\* C3: every flow event verifyMessage accepts reports a cumulative volume at
\* least that of every event accepted before it for the same (device, session)
\* key, whatever rejected events were verified in between.
AcceptedVolumeMonotone ==
  [][\A call \in BagToSet(verifying) :
       (/\ call.message.messageType = "WATER_FLOW"
        /\ verifyMessageResumes(call)
        /\ verification'.isValid
        /\ SessionOf(call.message) \in DOMAIN acceptedVolume)
       => call.message.totalVolume >= acceptedVolume[SessionOf(call.message)]]_vars

\* C29: verifyMessage for a device that is not registered answers invalid with
\* the one error of the registry lookup and no warning, whatever else is wrong
\* with the message, suspends nothing and leaves the registry and the tracked
\* sessions alone.
UnregisteredStopsVerification ==
  [][\A m \in CheckInputs :
       (m.deviceId \notin DOMAIN deviceRegistry /\ verifyMessage(m))
       => /\ ~verification'.isValid
          /\ verification'.errors = <<"Device not registered in the system">>
          /\ verification'.warnings = << >>
          /\ deviceRegistry' = deviceRegistry
          /\ trackedSessions' = trackedSessions
          /\ verifying' = verifying]_vars

\* C29 witness: a message was refused for its unregistered device while the
\* pipeline had registered no device and tracked no session.
UnregisteredWitness ==
  /\ verification.errors = <<"Device not registered in the system">>
  /\ ~verification.isValid
  /\ deviceRegistry = << >>
  /\ trackedSessions = << >>

\* the errors the checks verifyMessage makes before its await owe for the
\* message m of a registered device, one per failed check
FailedEarlyChecks(m) ==
  LET device == deviceRegistry[m.deviceId]
  IN {e \in {"Device is not active"} : ~device.isActive}
     \cup {e \in {"Device is not associated with the specified well"} :
             device.wellId # m.wellId}
     \cup {e \in {"Message timestamp is outside acceptable range"} :
             now - m.timestamp > MaxTimestampDrift \/ m.timestamp - now > MaxTimestampDrift}

\* the errors the checks verifyMessage makes after its await owe for m
FailedLateChecks(m) ==
  LET flow == m.messageType = "WATER_FLOW"
      status == m.messageType = "DEVICE_STATUS"
      key == IF flow THEN m.deviceId \o "-" \o m.sessionId ELSE ""
      tracked == flow /\ key \in DOMAIN trackedSessions
  IN {e \in {"Message signature verification failed"} : ~m.signatureValid}
     \cup {e \in {"Session duration exceeds maximum allowed time"} :
             tracked /\ m.timestamp - trackedSessions[key].startTime > VPMaxSessionDuration}
     \cup {e \in {"Total volume cannot decrease during session"} :
             tracked /\ m.totalVolume < trackedSessions[key].totalVolume}
     \cup {e \in {"Flow rate cannot be negative"} : flow /\ m.readings.flowRate < 0}
     \cup {e \in {"Total volume cannot be negative"} : flow /\ m.totalVolume < 0}
     \cup {e \in {"Pulse count cannot be negative"} : flow /\ m.readings.pulseCount < 0}
     \cup {e \in {"Pressure reading out of valid range (0-200 PSI)"} :
             flow /\ (m.readings.pressure < 0 \/ m.readings.pressure > 200)}
     \cup {e \in {"Temperature reading out of valid range (-10 to 60 C)"} :
             flow /\ (m.readings.temperature < -10 \/ m.readings.temperature > 60)}
     \cup {e \in {"Battery level must be between 0 and 100"} :
             status /\ (m.readings.batteryLevel < 0 \/ m.readings.batteryLevel > 100)}
     \cup {e \in {"Signal strength out of valid range (-120 to 0 dBm)"} :
             status /\ (m.readings.signalStrength < -120 \/ m.readings.signalStrength > 0)}
     \cup {e \in {"Memory usage must be between 0 and 100"} :
             status /\ (m.readings.memoryUsage < 0 \/ m.readings.memoryUsage > 100)}
     \cup {e \in {"Uptime cannot be negative"} : status /\ m.readings.uptime < 0}

\* C30: for a registered device every failed check of verifyMessage adds its
\* own error and no other error is added: the call that suspends at the
\* signature check holds one error for each of the device, well and timestamp
\* checks that failed, and the result adds one for each failed check of the
\* signature and of the message's kind; the result is valid exactly when no
\* error was added, and a low battery or a weak signal adds a warning without
\* making the result invalid.
ErrorsAccumulate ==
  [][/\ \A call \in BagToSet(verifying') :
          CopiesIn(call, verifying') > CopiesIn(call, verifying)
          => /\ {call.errors[i] : i \in DOMAIN call.errors}
                  = FailedEarlyChecks(call.message)
             /\ Len(call.errors) = Cardinality(FailedEarlyChecks(call.message))
     /\ \A call \in BagToSet(verifying) :
          verifyMessageResumes(call)
          => LET m == call.message
                 errors == verification'.errors
                 warnings == verification'.warnings
                 status == m.messageType = "DEVICE_STATUS"
             IN /\ {errors[i] : i \in DOMAIN errors}
                     = {call.errors[i] : i \in DOMAIN call.errors} \cup FailedLateChecks(m)
                /\ Len(errors) = Len(call.errors) + Cardinality(FailedLateChecks(m))
                /\ verification'.isValid
                     = (call.errors = << >> /\ FailedLateChecks(m) = {})
                /\ (status /\ m.readings.batteryLevel < 20)
                     <=> (\E i \in DOMAIN warnings :
                            warnings[i] = "Device battery level is low")
                /\ (status /\ m.readings.signalStrength < -90)
                     <=> (\E i \in DOMAIN warnings :
                            warnings[i] = "Device signal strength is weak")]_vars

\* C30 witness: one message of a registered device failed four checks and the
\* result carries the four errors.
ErrorsAccumulateWitness ==
  /\ "D1" \in DOMAIN deviceRegistry
  /\ ~verification.isValid
  /\ verification.errors =
       <<"Device is not active",
         "Device is not associated with the specified well",
         "Message timestamp is outside acceptable range",
         "Message signature verification failed">>

\* C31: once the pipeline tracks a session of a device, so that verifyMessage
\* has processed a flow message of it, no step changes the well registered
\* for the device.
FacilityImmutable ==
  [][\A d \in DOMAIN deviceRegistry :
       (\E sid \in SessionIds :
          SessionKey([deviceId |-> d, sessionId |-> sid]) \in DOMAIN trackedSessions)
       => /\ d \in DOMAIN deviceRegistry'
          /\ deviceRegistry'[d].wellId = deviceRegistry[d].wellId]_vars

\* C37: verifyMessage of a flow message that it finds invalid leaves the
\* tracking map as it was.
RejectedFlowUntracked ==
  [][\A call \in BagToSet(verifying) :
       (/\ call.message.messageType = "WATER_FLOW"
        /\ verifyMessageResumes(call)
        /\ ~verification'.isValid)
       => trackedSessions' = trackedSessions]_vars

(***************************************************************************)
(* Claims about the message formats                                        *)
(***************************************************************************)

\* a flow or status event as the interfaces declare it (lines 3-39): every
\* required property present with its declared primitive type, enumerated
\* properties among their literals, the optional errorCode a string if given
WellFormedEvent(payload) ==
  /\ payload.kind = "object"
  /\ LET fields == payload.fields
     IN \/ validateWaterFlowMessage(fields)
        \/ /\ validateDeviceStatusMessage(fields)
           /\ TypeOf(fields, "errorCode") \in {"undefined", "string"}
           /\ \A f \in HealthFields : Includes({"OK", "WARNING", "ERROR"}, fields, f)
           /\ TypeOf(fields, "diagnostics.memoryUsage") = "number"
           /\ TypeOf(fields, "diagnostics.uptime") = "number"

\* C34: deserializeMessage(serializeMessage(e)) is e for every well-formed
\* event e.
RoundTrip ==
  (codecCall = "deserialize" /\ WellFormedEvent(codecMessage))
  => codecResult = codecMessage

\* C35: validateHCSMessage returns true exactly for the payloads that are a
\* well-formed flow or status event, and reports every other payload invalid.
ValidationFailsClosed ==
  codecCall = "validate"
  => /\ codecValid \in {"true", "false"}
     /\ codecValid = "true" <=> WellFormedEvent(codecMessage)

====
